---- MODULE Spec2Model ----
(***************************************************************************)
(* A model of the lexical-matching and disambiguation core of Reynir:      *)
(*   - Wordbase: the lazily loaded DAWG singletons (dawgdictionary.py)     *)
(*   - BIN_Db.get_db: the lexicon session singleton (bindb.py)             *)
(*   - PackedDawgDictionary: navigation of the packed word graph           *)
(*   - BIN_Token / VariantHandler: token-terminal matching (binparser.py)  *)
(*   - Reducer / ParseForestReducer / ReductionInfo (reducer.py)           *)
(*                                                                         *)
(* Each component has its own specification (SpecWordbase, SpecBinDb, ...) *)
(* over its own group of variables; the variables of the other components  *)
(* stay at their idle values.                                              *)
(*                                                                         *)
(* Python strings are modelled as sequences of one-character strings.      *)
(* Icelandic letters are written in ASCII inside the model: "TH" is the    *)
(* single capital letter thorn, "th" the small one, "o'" is o-acute, etc.  *)
(***************************************************************************)
EXTENDS Integers, Sequences, FiniteSets, TLC

VARIABLES
    \* ---- Wordbase (dawgdictionary.py) ----
    Wordbase_dawg,      \* resource -> None or the object stored in the class attribute
    Wordbase_lock,      \* None or the thread holding Wordbase._lock
    wb_pc,              \* thread -> position inside dawg()/dawg_formers()/dawg_last()
    wb_res,             \* thread -> resource its current call is about
    wb_local,           \* thread -> the local 'dawg' of _load_resource
    wb_obj,             \* object id -> load stage of that PackedDawgDictionary
    wb_loads,           \* resource -> number of completed _load_resource calls
    wb_returned,        \* resource -> set of objects ever returned to a caller
    \* ---- BIN_Db.get_db (bindb.py) ----
    BIN_Db_singleton,   \* None or the object stored in BIN_Db._singleton
    db_pc,              \* thread -> position inside _BIN_Session.__enter__
    db_local,           \* thread -> the instance built by cls() in this call
    db_constructed,     \* number of BIN_Db instances constructed so far
    db_returned,        \* set of instances ever returned by __enter__
    db_cleanups,        \* number of BIN_Db.cleanup() calls so far
    \* ---- PackedDawgDictionary / PackedNavigation (dawgdictionary.py) ----
    dg_words,           \* the word list the file on disk was built from
    dg_file,            \* the bytes of the file on disk
    dawg,               \* the PackedDawgDictionary object: _b, _vocabulary, ...
    dg_iter_cache,      \* PackedNavigation._iter_caches[id(b)]: offset -> edges
    dg_op,              \* the last operation performed on the dictionary
    dg_arg,             \* its argument (a word)
    dg_result,          \* what it returned
    \* ---- BIN_Token / BIN_Terminal matching (binparser.py) ----
    mt_terminal,        \* the terminal built: _first, _vparts, _vbits, _fbits, ...
    mt_token,           \* the word token built: t1, t1_lower, t2, is_upper, _is_eo
    mt_result,          \* what match_with_meaning returned
    mt_pc,              \* how far the scenario has got
    \* ---- Reducer / ParseForestReducer (reducer.py) ----
    rd_scen,            \* which forest go_with_score is given
    rd_run,             \* the number of the run on that forest
    rd_prev,            \* what the run before this one pruned and returned
    rd_forest,          \* the forest: the nodes, with their families
    rd_order,           \* the order in which each set finals[i] is iterated
    rd_scores,          \* scores[i][terminal]
    rd_pc,              \* where go_with_score is
    rd_arg,             \* the node the walk is called for (0: None)
    rd_ret,             \* the dict the walk returned last
    rd_nav,             \* the calls of the walk in progress, with their results objects
    rd_visited,         \* the results the walk keeps for the nodes seen
    rd_prep_bonus_stack,    \* ParseForestReducer._prep_bonus_stack
    rd_current_verb_stack,  \* ParseForestReducer._current_verb_stack
    rd_bonus_cache,     \* ParseForestReducer._bonus_cache: (key, bonus) pairs
    rd_reduce_calls,    \* the calls node.reduce_to(ix) made, in order
    \* ---- _Job / _Sentence (reynir.py) ----
    jb_job,             \* the _Job object: _parse and the statistics counters
    jb_stream,          \* the sentences the token stream has yet to yield
    jb_sents,           \* the _Sentence objects created so far, in order
    jb_parsings,        \* per _Sentence object: how often job.parse ran for it
    jb_calls,           \* the number of sentence.parse() calls made so far
    jb_last,            \* the last sentence.parse() call: the object and the value returned
    \* ---- the configuration tables (settings.py) ----
    cf_tables,          \* per table: the (key, value) pairs of the dictionary
    \* ---- BIN_Db._lookup and the cache of reading lists (bindb.py) ----
    lk_cache,           \* BIN_Db._meanings_cache: word -> the reading list kept for it
    lk_ret,             \* the last lookup_word call: arguments, (w, m), and the key
                        \* under which the list m is cached, if it is a cached list
    lk_calls            \* the number of lookup_word calls made

wbVars == <<Wordbase_dawg, Wordbase_lock, wb_pc, wb_res, wb_local, wb_obj,
            wb_loads, wb_returned>>
dbVars == <<BIN_Db_singleton, db_pc, db_local, db_constructed, db_returned,
            db_cleanups>>
dgVars == <<dg_words, dg_file, dawg, dg_iter_cache, dg_op, dg_arg, dg_result>>
mtVars == <<mt_terminal, mt_token, mt_result, mt_pc>>
rdVars == <<rd_scen, rd_run, rd_prev, rd_forest, rd_order, rd_scores, rd_pc, rd_arg, rd_ret,
            rd_nav, rd_visited, rd_prep_bonus_stack, rd_current_verb_stack, rd_bonus_cache,
            rd_reduce_calls>>
jbVars == <<jb_job, jb_stream, jb_sents, jb_parsings, jb_calls, jb_last>>
cfVars == <<cf_tables>>
lkVars == <<lk_cache, lk_ret, lk_calls>>
vars == <<wbVars, dbVars, dgVars, mtVars, rdVars, jbVars, cfVars, lkVars>>
\* What the actions of one component leave alone: the other components
exceptWordbase == <<dbVars, dgVars, mtVars, rdVars, jbVars, cfVars, lkVars>>
exceptBinDb == <<wbVars, dgVars, mtVars, rdVars, jbVars, cfVars, lkVars>>
exceptDawg == <<wbVars, dbVars, mtVars, rdVars, jbVars, cfVars, lkVars>>
exceptMatcher == <<wbVars, dbVars, dgVars, rdVars, jbVars, cfVars, lkVars>>
exceptReducer == <<wbVars, dbVars, dgVars, mtVars, jbVars, cfVars, lkVars>>
exceptJob == <<wbVars, dbVars, dgVars, mtVars, rdVars, cfVars, lkVars>>
exceptLookup == <<wbVars, dbVars, dgVars, mtVars, rdVars, jbVars, cfVars>>
\* The same for a matching call and for a scoring call, which subscript the
\* configuration tables
exceptMatcherTables == <<wbVars, dbVars, dgVars, rdVars, jbVars, lkVars>>
exceptReducerTables == <<wbVars, dbVars, dgVars, mtVars, jbVars, lkVars>>

\* Python's None for string-valued fields; object and thread ids are the
\* positive numbers and 0 stands for None where an id is expected.
None == "None"

\* Number of concurrent callers
NumThreads == 2
Threads == 1 .. NumThreads

\* Number of PackedDawgDictionary / BIN_Db objects that may be allocated
MaxObjs == 3
Objs == 1 .. MaxObjs

(***************************************************************************)
(* Wordbase                                                                *)
(***************************************************************************)

Resources == {"ordalisti-all", "ordalisti-formers", "ordalisti-last"}

\* Stages of PackedDawgDictionary.load(): the object exists ("new"), the
\* file has been read into _b ("read"), the signature has been checked
\* ("sig"), the vocabulary decoded ("voc"), the encoding dict filled ("enc").
LoadStages == {"free", "new", "read", "sig", "voc", "enc"}
FullyLoaded(o) == wb_obj[o] = "enc"

WordbaseInit ==
    /\ Wordbase_dawg = [r \in Resources |-> 0]
    /\ Wordbase_lock = 0
    /\ wb_pc = [t \in Threads |-> "idle"]
    /\ wb_res = [t \in Threads |-> None]
    /\ wb_local = [t \in Threads |-> 0]
    /\ wb_obj = [o \in Objs |-> "free"]
    /\ wb_loads = [r \in Resources |-> 0]
    /\ wb_returned = [r \in Resources |-> {}]

WordbaseIdle ==
    /\ Wordbase_dawg = [r \in Resources |-> 0]
    /\ Wordbase_lock = 0
    /\ wb_pc = [t \in {} |-> "idle"]
    /\ wb_res = [t \in {} |-> None]
    /\ wb_local = [t \in {} |-> 0]
    /\ wb_obj = [o \in {} |-> "free"]
    /\ wb_loads = [r \in Resources |-> 0]
    /\ wb_returned = [r \in Resources |-> {}]

\* A caller enters dawg(), dawg_formers() or dawg_last()
wb_Call(t, r) ==
    /\ wb_pc[t] = "idle"
    /\ wb_pc' = [wb_pc EXCEPT ![t] = "lock"]
    /\ wb_res' = [wb_res EXCEPT ![t] = r]
    /\ UNCHANGED <<Wordbase_dawg, Wordbase_lock, wb_local, wb_obj, wb_loads,
                   wb_returned>>
    /\ UNCHANGED exceptWordbase

\* The guard of "with cls._lock:" (a mutant that takes the lock regardless)
LockIsFreeIgnored == TRUE

LockIsFree == Wordbase_lock = 0

\* with cls._lock:
wb_Acquire(t) ==
    /\ wb_pc[t] = "lock"
    /\ LockIsFree
    /\ Wordbase_lock' = t
    /\ wb_pc' = [wb_pc EXCEPT ![t] = "check"]
    /\ UNCHANGED <<Wordbase_dawg, wb_res, wb_local, wb_obj, wb_loads, wb_returned>>
    /\ UNCHANGED exceptWordbase

\* if cls._dawg is None:
wb_Check(t) ==
    /\ wb_pc[t] = "check"
    /\ wb_pc' = [wb_pc EXCEPT ![t] =
                    IF Wordbase_dawg[wb_res[t]] = 0 THEN "construct" ELSE "return"]
    /\ UNCHANGED <<Wordbase_dawg, Wordbase_lock, wb_res, wb_local, wb_obj,
                   wb_loads, wb_returned>>
    /\ UNCHANGED exceptWordbase

\* _load_resource: dawg = PackedDawgDictionary()
wb_Construct(t) ==
    /\ wb_pc[t] = "construct"
    /\ \E o \in Objs :
        /\ wb_obj[o] = "free"
        /\ \A p \in Objs : p < o => wb_obj[p] # "free"
        /\ wb_obj' = [wb_obj EXCEPT ![o] = "new"]
        /\ wb_local' = [wb_local EXCEPT ![t] = o]
    /\ wb_pc' = [wb_pc EXCEPT ![t] = "load"]
    /\ UNCHANGED <<Wordbase_dawg, Wordbase_lock, wb_res, wb_loads, wb_returned>>
    /\ UNCHANGED exceptWordbase

NextStage(s) ==
    CASE s = "new" -> "read"
      [] s = "read" -> "sig"
      [] s = "sig" -> "voc"
      [] s = "voc" -> "enc"
      [] OTHER -> s

\* dawg.load(pname): one statement of load() at a time
wb_LoadStep(t) ==
    /\ wb_pc[t] = "load"
    /\ wb_obj[wb_local[t]] # "enc"
    /\ wb_obj' = [wb_obj EXCEPT ![wb_local[t]] = NextStage(@)]
    /\ UNCHANGED <<Wordbase_dawg, Wordbase_lock, wb_pc, wb_res, wb_local,
                   wb_loads, wb_returned>>
    /\ UNCHANGED exceptWordbase

\* open() raises (stage "new") or the signature assertion fails (stage
\* "read"): the exception leaves the with block, which releases the lock;
\* the class attribute was not assigned.
wb_LoadFails(t) ==
    /\ wb_pc[t] = "load"
    /\ wb_obj[wb_local[t]] \in {"new", "read"}
    /\ Wordbase_lock' = IF Wordbase_lock = t THEN 0 ELSE Wordbase_lock
    /\ wb_pc' = [wb_pc EXCEPT ![t] = "idle"]
    /\ wb_local' = [wb_local EXCEPT ![t] = 0]
    /\ wb_res' = [wb_res EXCEPT ![t] = None]
    /\ UNCHANGED <<Wordbase_dawg, wb_obj, wb_loads, wb_returned>>
    /\ UNCHANGED exceptWordbase

\* return dawg (from _load_resource); cls._dawg = <that object>
wb_Assign(t) ==
    /\ wb_pc[t] = "load"
    /\ wb_obj[wb_local[t]] = "enc"
    /\ Wordbase_dawg' = [Wordbase_dawg EXCEPT ![wb_res[t]] = wb_local[t]]
    /\ wb_loads' = [wb_loads EXCEPT ![wb_res[t]] = @ + 1]
    /\ wb_pc' = [wb_pc EXCEPT ![t] = "return"]
    /\ UNCHANGED <<Wordbase_lock, wb_res, wb_local, wb_obj, wb_returned>>
    /\ UNCHANGED exceptWordbase

\* assert cls._dawg is not None; return cls._dawg  (leaving the with block)
wb_Return(t) ==
    /\ wb_pc[t] = "return"
    /\ Wordbase_dawg[wb_res[t]] # 0
    /\ wb_returned' = [wb_returned EXCEPT ![wb_res[t]] = @ \cup {Wordbase_dawg[wb_res[t]]}]
    /\ Wordbase_lock' = IF Wordbase_lock = t THEN 0 ELSE Wordbase_lock
    /\ wb_pc' = [wb_pc EXCEPT ![t] = "idle"]
    /\ wb_local' = [wb_local EXCEPT ![t] = 0]
    /\ wb_res' = [wb_res EXCEPT ![t] = None]
    /\ UNCHANGED <<Wordbase_dawg, wb_obj, wb_loads>>
    /\ UNCHANGED exceptWordbase

WordbaseNext ==
    \E t \in Threads :
        \/ \E r \in Resources : wb_Call(t, r)
        \/ wb_Acquire(t)
        \/ wb_Check(t)
        \/ wb_Construct(t)
        \/ wb_LoadStep(t)
        \/ wb_LoadFails(t)
        \/ wb_Assign(t)
        \/ wb_Return(t)

(***************************************************************************)
(* BIN_Db.get_db / _BIN_Session.__enter__ / BIN_Db.cleanup                 *)
(***************************************************************************)

BinDbInit ==
    /\ BIN_Db_singleton = 0
    /\ db_pc = [t \in Threads |-> "idle"]
    /\ db_local = [t \in Threads |-> 0]
    /\ db_constructed = 0
    /\ db_returned = {}
    /\ db_cleanups = 0

BinDbIdle ==
    /\ BIN_Db_singleton = 0
    /\ db_pc = [t \in {} |-> "idle"]
    /\ db_local = [t \in {} |-> 0]
    /\ db_constructed = 0
    /\ db_returned = {}
    /\ db_cleanups = 0

\* with BIN_Db.get_db() as db:   (the session object holds no state)
db_Enter(t) ==
    /\ db_pc[t] = "idle"
    /\ db_pc' = [db_pc EXCEPT ![t] = "check"]
    /\ UNCHANGED <<BIN_Db_singleton, db_local, db_constructed, db_returned, db_cleanups>>
    /\ UNCHANGED exceptBinDb

\* if cls._singleton is None:
db_Check(t) ==
    /\ db_pc[t] = "check"
    /\ db_pc' = [db_pc EXCEPT ![t] =
                    IF BIN_Db_singleton = 0 THEN "construct" ELSE "return"]
    /\ UNCHANGED <<BIN_Db_singleton, db_local, db_constructed, db_returned, db_cleanups>>
    /\ UNCHANGED exceptBinDb

\* cls(): BIN_Db.__init__ builds a BIN_Compressed() (file access: other
\* threads run meanwhile)
db_Construct(t) ==
    /\ db_pc[t] = "construct"
    /\ db_constructed < MaxObjs
    /\ db_constructed' = db_constructed + 1
    /\ db_local' = [db_local EXCEPT ![t] = db_constructed + 1]
    /\ db_pc' = [db_pc EXCEPT ![t] = "assign"]
    /\ UNCHANGED <<BIN_Db_singleton, db_returned, db_cleanups>>
    /\ UNCHANGED exceptBinDb

\* BIN_Compressed() throws IOError: __enter__ raises, nothing is assigned
db_ConstructFails(t) ==
    /\ db_pc[t] = "construct"
    /\ db_pc' = [db_pc EXCEPT ![t] = "idle"]
    /\ UNCHANGED <<BIN_Db_singleton, db_local, db_constructed, db_returned, db_cleanups>>
    /\ UNCHANGED exceptBinDb

\* cls._singleton = <the new instance>
db_Assign(t) ==
    /\ db_pc[t] = "assign"
    /\ BIN_Db_singleton' = db_local[t]
    /\ db_pc' = [db_pc EXCEPT ![t] = "return"]
    /\ UNCHANGED <<db_local, db_constructed, db_returned, db_cleanups>>
    /\ UNCHANGED exceptBinDb

\* return cls._singleton
db_Return(t) ==
    /\ db_pc[t] = "return"
    /\ db_returned' = db_returned \cup {BIN_Db_singleton}
    /\ db_pc' = [db_pc EXCEPT ![t] = "idle"]
    /\ db_local' = [db_local EXCEPT ![t] = 0]
    /\ UNCHANGED <<BIN_Db_singleton, db_constructed, db_cleanups>>
    /\ UNCHANGED exceptBinDb

\* BIN_Db.cleanup(): close and forget the singleton
cleanup ==
    /\ BIN_Db_singleton # 0
    /\ db_cleanups < 1
    /\ BIN_Db_singleton' = 0
    /\ db_cleanups' = db_cleanups + 1
    /\ UNCHANGED <<db_pc, db_local, db_constructed, db_returned>>
    /\ UNCHANGED exceptBinDb

BinDbNext ==
    \/ \E t \in Threads :
        \/ db_Enter(t)
        \/ db_Check(t)
        \/ db_Construct(t)
        \/ db_ConstructFails(t)
        \/ db_Assign(t)
        \/ db_Return(t)
    \/ cleanup

(***************************************************************************)
(* PackedDawgDictionary, FindNavigator, CompoundNavigator,                 *)
(* PackedNavigation (dawgdictionary.py)                                    *)
(*                                                                         *)
(* A character is its Unicode code point; a word is a sequence of          *)
(* characters; the byte buffer is a sequence of numbers 0..255 and         *)
(* At(b, o) reads it at the 0-based offset o as Python does.               *)
(***************************************************************************)

\* b"ReynirDawg!\n"
Signature == <<82, 101, 121, 110, 105, 114, 68, 97, 119, 103, 33, 10>>
\* The vertical bar "|" that marks finality inside a decoded prefix
VBar == 124

At(b, o) == b[o + 1]
InBuf(b, o) == o >= 0 /\ o < Len(b)
\* x & 0x7f and x & 0x80 for a byte x
Low7(x) == x % 128
Hi(x) == (x \div 128) % 2 = 1
\* struct.Struct("<L").unpack_from(b, o)
UnpackL(b, o) ==
    At(b, o) + 256 * At(b, o + 1) + 65536 * At(b, o + 2) + 16777216 * At(b, o + 3)
PackL(n) ==
    << n % 256, (n \div 256) % 256, (n \div 65536) % 256, (n \div 16777216) % 256 >>

\* bytes.decode("utf-8") / str.encode("utf-8") for code points below 2048
Utf8Char(c) == IF c < 128 THEN <<c>> ELSE << 192 + (c \div 64), 128 + (c % 64) >>
RECURSIVE Utf8Encode(_)
Utf8Encode(str) ==
    IF str = <<>> THEN <<>> ELSE Utf8Char(Head(str)) \o Utf8Encode(Tail(str))
RECURSIVE Utf8Decode(_)
Utf8Decode(bytes) ==
    IF bytes = <<>> THEN <<>>
    ELSE IF Head(bytes) < 128 THEN <<Head(bytes)>> \o Utf8Decode(Tail(bytes))
    ELSE << (Head(bytes) - 192) * 64 + (bytes[2] - 128) >> \o Utf8Decode(Tail(Tail(bytes)))

(* ---- the file on disk: a packed graph in the layout load() and ---- *)
(* ---- _iter_from_node() read, built here as a path-compressed trie ---- *)

IsPrefix(p, w) == Len(p) <= Len(w) /\ SubSeq(w, 1, Len(p)) = p
Children(S, p) == { w[Len(p) + 1] : w \in { x \in S : Len(x) > Len(p) /\ IsPrefix(p, x) } }
RECURSIVE SortedSeq(_)
SortedSeq(set) ==
    IF set = {} THEN <<>>
    ELSE LET m == CHOOSE x \in set : \A y \in set : x <= y
         IN <<m>> \o SortedSeq(set \ {m})
\* The end of the edge that starts with character c below the node of p:
\* the path is followed for as long as it does not branch
RECURSIVE EdgeEnd(_, _)
EdgeEnd(S, cur) ==
    IF Cardinality(Children(S, cur)) = 1
    THEN EdgeEnd(S, Append(cur, CHOOSE c \in Children(S, cur) : TRUE))
    ELSE cur
IsLeaf(S, p) == Children(S, p) = {}
EdgeSize(S, p, c) ==
    LET e == EdgeEnd(S, Append(p, c))
    IN 1 + (Len(e) - Len(p)) + (IF IsLeaf(S, e) THEN 0 ELSE 4)
RECURSIVE SumOver(_, _, _, _)
SumOver(S, p, cs, k) ==
    IF k > Len(cs) THEN 0 ELSE EdgeSize(S, p, cs[k]) + SumOver(S, p, cs, k + 1)
NodeSize(S, p) == 1 + SumOver(S, p, SortedSeq(Children(S, p)), 1)
VocOf(S) == SortedSeq(UNION { { w[i] : i \in 1 .. Len(w) } : w \in S })
VocIndex(voc, ch) == (CHOOSE i \in 1 .. Len(voc) : voc[i] = ch) - 1

RECURSIVE EmitNode(_, _, _, _), EmitEdges(_, _, _, _, _, _, _, _)
\* The bytes of the subtree of the node of prefix p, placed at offset off
EmitNode(S, voc, p, off) ==
    LET cs == SortedSeq(Children(S, p))
        nodebyte == Len(cs) + (IF p \in S THEN 128 ELSE 0)
    IN EmitEdges(S, voc, p, cs, 1, <<nodebyte>>, <<>>, off + NodeSize(S, p))
EmitEdges(S, voc, p, cs, k, out, sub, nxt) ==
    IF k > Len(cs) THEN out \o sub
    ELSE LET e == EdgeEnd(S, Append(p, cs[k]))
             n == Len(e) - Len(p)
             leaf == IsLeaf(S, e)
             chars == [ i \in 1 .. n |->
                          VocIndex(voc, e[Len(p) + i])
                          + (IF SubSeq(e, 1, Len(p) + i) \in S /\ (leaf \/ i < n)
                             THEN 128 ELSE 0) ]
             child == IF leaf THEN <<>> ELSE EmitNode(S, voc, e, nxt)
         IN EmitEdges(S, voc, p, cs, k + 1,
                      out \o <<n>> \o chars \o (IF leaf THEN <<>> ELSE PackL(nxt)),
                      sub \o child, nxt + Len(child))
\* The whole file: signature, vocabulary length, vocabulary, node table
PackedFile(S) ==
    LET voc == VocOf(S)
        vb == Utf8Encode(voc)
        head == Signature \o PackL(Len(vb)) \o vb
    IN head \o EmitNode(S, voc, <<>>, Len(head))

(* ---- PackedDawgDictionary ---- *)

\* PackedDawgDictionary.__init__
NewDawg ==
    [ has_b |-> FALSE, b |-> <<>>, vocabulary |-> <<>>, root_offset |-> 0,
      encoding |-> [ i \in {} |-> <<>> ] ]

\* PackedDawgDictionary.load: the object it leaves behind, and whether the
\* signature assertion held
LoadSignatureOK(file) == Len(file) >= 12 /\ SubSeq(file, 1, 12) = Signature
load(d, file) ==
    IF d.has_b THEN d
    ELSE IF ~LoadSignatureOK(file)
    THEN [ d EXCEPT !.has_b = TRUE, !.b = file ]
    ELSE LET len_voc == UnpackL(file, 12)
             voc == Utf8Decode(SubSeq(file, 17, 16 + len_voc))
         IN [ has_b |-> TRUE, b |-> file, vocabulary |-> voc,
              root_offset |-> 16 + len_voc,
              encoding |->
                [ i \in (0 .. Len(voc) - 1) \cup { 128 + k : k \in 0 .. Len(voc) - 1 } |->
                    IF i < 128 THEN << voc[i + 1] >> ELSE << voc[i - 128 + 1], VBar >> ] ]

(* ---- PackedNavigation ---- *)

RECURSIVE JoinBytes(_, _, _, _)
\* u"".join(encoding[b[offset + j]] for j in range(len_byte))
JoinBytes(d, offset, j, len_byte) ==
    IF j >= len_byte THEN <<>>
    ELSE d.encoding[At(d.b, offset + j)] \o JoinBytes(d, offset, j + 1, len_byte)

RECURSIVE IterEdges(_, _, _, _)
\* _iter_from_node after the node byte: offset is where the next edge starts,
\* n the number of edges left, acc the (prefix, nextnode) pairs so far
IterEdges(d, offset, n, acc) ==
    IF n = 0 THEN [ ok |-> TRUE, edges |-> acc ]
    ELSE IF ~InBuf(d.b, offset) THEN [ ok |-> FALSE, edges |-> acc ]
    ELSE LET len_byte == Low7(At(d.b, offset))
             o1 == offset + 1
             o2 == o1 + len_byte
         IN IF \E j \in 0 .. len_byte - 1 :
                    ~InBuf(d.b, o1 + j) \/ At(d.b, o1 + j) \notin DOMAIN d.encoding
            THEN [ ok |-> FALSE, edges |-> acc ]
            ELSE LET prefix == JoinBytes(d, o1, 0, len_byte)
                 IN IF Hi(At(d.b, o2 - 1))
                    THEN IterEdges(d, o2, n - 1, Append(acc, <<prefix, 0>>))
                    ELSE IF ~InBuf(d.b, o2 + 3)
                    THEN [ ok |-> FALSE, edges |-> acc ]
                    ELSE IterEdges(d, o2 + 4, n - 1,
                                   Append(acc, <<prefix, UnpackL(d.b, o2)>>))

\* _iter_from_node taking the whole node byte as the number of edges (a mutant)
iter_from_node_raw(d, offset) ==
    IF ~InBuf(d.b, offset) THEN [ ok |-> FALSE, edges |-> <<>> ]
    ELSE IterEdges(d, offset + 1, At(d.b, offset), <<>>)

\* PackedNavigation._iter_from_node
iter_from_node(d, offset) ==
    IF ~InBuf(d.b, offset) THEN [ ok |-> FALSE, edges |-> <<>> ]
    ELSE IterEdges(d, offset + 1, Low7(At(d.b, offset)), <<>>)

RECURSIVE DictOf(_, _, _)
\* { prefix : nextnode for prefix, nextnode in ... }: a key seen again keeps
\* its place in the iteration order and takes the later value
DictOf(pairs, k, acc) ==
    IF k > Len(pairs) THEN acc
    ELSE IF \E i \in 1 .. Len(acc) : acc[i][1] = pairs[k][1]
    THEN DictOf(pairs, k + 1,
                [ i \in 1 .. Len(acc) |->
                    IF acc[i][1] = pairs[k][1] THEN pairs[k] ELSE acc[i] ])
    ELSE DictOf(pairs, k + 1, Append(acc, pairs[k]))

\* A cache hit that yields nothing to iterate (a mutant)
make_iter_from_node_stale(d, cache, offset) ==
    IF offset \in DOMAIN cache
    THEN [ ok |-> TRUE, edges |-> <<>>, cache |-> cache ]
    ELSE LET it == iter_from_node(d, offset)
             items == DictOf(it.edges, 1, <<>>)
         IN IF ~it.ok THEN [ ok |-> FALSE, edges |-> <<>>, cache |-> cache ]
            ELSE [ ok |-> TRUE, edges |-> items, cache |-> (offset :> items) @@ cache ]

\* PackedNavigation._make_iter_from_node: the items to iterate and the cache
\* after the call
make_iter_from_node(d, cache, offset) ==
    IF offset \in DOMAIN cache
    THEN [ ok |-> TRUE, edges |-> cache[offset], cache |-> cache ]
    ELSE LET it == iter_from_node(d, offset)
             items == DictOf(it.edges, 1, <<>>)
         IN IF ~it.ok THEN [ ok |-> FALSE, edges |-> <<>>, cache |-> cache ]
            ELSE [ ok |-> TRUE, edges |-> items, cache |-> (offset :> items) @@ cache ]

(* ---- the navigators ---- *)

\* _JOINERS with the filler "a" tried first (a mutant)
JoinersFillerA == << <<97>>, <<>> >>
\* _JOINERS without the filler "s" (a mutant)
JoinersEmptyOnly == << <<>> >>
\* CompoundNavigator._JOINERS = ["", "s"]
JOINERS == << <<>>, <<115>> >>

\* FindNavigator.__init__ / CompoundNavigator.__init__
FindNavigator(word) ==
    [ kind |-> "find", word |-> word, len |-> Len(word), index |-> 0,
      found |-> FALSE, parts |-> <<>> ]
CompoundNavigator(word) ==
    [ kind |-> "compound", word |-> word, len |-> Len(word), index |-> 0,
      found |-> FALSE, parts |-> <<>> ]

\* push_edge(firstchar): self._word[self._index] == firstchar
push_edge(nav, firstchar) == nav.word[nav.index + 1] = firstchar
\* accepting() that always wants more (a mutant)
accepting_always(nav) == TRUE
\* accepting(): self._index < self._len
accepting(nav) == nav.index < nav.len
\* accepts(newchar): the comparison; on success the index moves on
accepts(nav, newchar) == nav.word[nav.index + 1] = newchar
\* pop_edge(): both navigators return False
pop_edge(nav) == FALSE

\* FindNavigator.accept without the test of 'final' (a mutant)
FindAcceptedAnyPrefix(nav, final) == nav.index = nav.len
\* FindNavigator.accept: if final and self._index == self._len
FindAccepted(nav, final) == final /\ nav.index = nav.len

\* A navigation in progress: the navigator, the edge cache, and whether an
\* exception (IndexError, KeyError, AssertionError) has been raised; and, to
\* observe the run, how deep the navigators created below this one are
\* nested, whether each was created on a word shorter than its parent's, and
\* whether self._word was indexed at or past its end
NavState(nav, cache) ==
    [ nav |-> nav, cache |-> cache, err |-> FALSE,
      depth |-> 0, shorter |-> TRUE, past_end |-> FALSE ]
Raise(st) == [ st EXCEPT !.err = TRUE ]
\* self._word[self._index] with the index at the end of the word: IndexError
PastEnd(st) == [ st EXCEPT !.err = TRUE, !.past_end = TRUE ]
\* The word handed to the next navigator: the whole word again (a mutant)
RemainderWhole(nav, lenj) == nav.word
\* self._word[self._index + lenj:], the word of the navigator that accept creates
Remainder(nav, lenj) == SubSeq(nav.word, nav.index + lenj + 1, nav.len)

RECURSIVE navigate_from_node(_, _, _, _), NodeLoop(_, _, _, _, _),
          navigate_from_edge(_, _, _, _, _, _), accept(_, _, _, _),
          JoinerLoop(_, _, _, _), navigate(_, _, _)

\* PackedNavigation._navigate_from_node
navigate_from_node(d, st, offset, matched) ==
    LET it == make_iter_from_node(d, st.cache, offset)
    IN IF ~it.ok THEN Raise(st)
       ELSE NodeLoop(d, [ st EXCEPT !.cache = it.cache ], it.edges, 1, matched)

\* its loop over the edges, from the i-th on
NodeLoop(d, st, edges, i, matched) ==
    IF st.err \/ i > Len(edges) THEN st
    ELSE LET prefix == edges[i][1]
             nextnode == edges[i][2]
         IN IF Len(prefix) = 0
            THEN Raise(st)   \* prefix[0]: IndexError
            ELSE IF ~(st.nav.index < st.nav.len)
            THEN PastEnd(st)
            ELSE IF push_edge(st.nav, prefix[1])
            THEN LET st2 == navigate_from_edge(d, st, prefix, nextnode, matched, 0)
                 IN IF st2.err \/ ~pop_edge(st2.nav) THEN st2
                    ELSE NodeLoop(d, st2, edges, i + 1, matched)
            ELSE NodeLoop(d, st, edges, i + 1, matched)

\* PackedNavigation._navigate_from_edge, from position j of the prefix
navigate_from_edge(d, st, prefix, nextnode, matched, j) ==
    IF st.err THEN st
    ELSE IF j < Len(prefix) /\ accepting(st.nav)
    THEN IF ~(st.nav.index < st.nav.len) THEN PastEnd(st)
         ELSE IF ~accepts(st.nav, prefix[j + 1]) THEN st
         ELSE LET nav1 == [ st.nav EXCEPT !.index = @ + 1 ]
                  m1 == Append(matched, prefix[j + 1])
                  j1 == j + 1
                  bar == j1 < Len(prefix) /\ prefix[j1 + 1] = VBar
                  oob == j1 >= Len(prefix) /\ nextnode # 0 /\ ~InBuf(d.b, nextnode)
                  final == \/ bar
                           \/ /\ j1 >= Len(prefix)
                              /\ (nextnode = 0 \/ (~oob /\ Hi(At(d.b, nextnode))))
              IN IF oob THEN Raise(st)
                 ELSE navigate_from_edge(d, accept(d, [ st EXCEPT !.nav = nav1 ], m1, final),
                                         prefix, nextnode, m1,
                                         IF bar THEN j1 + 1 ELSE j1)
    ELSE IF j < Len(prefix) THEN st
    ELSE IF nextnode # 0 /\ accepting(st.nav)
    THEN navigate_from_node(d, st, nextnode, matched)
    ELSE st

\* FindNavigator.accept / CompoundNavigator.accept
accept(d, st, matched, final) ==
    IF st.nav.kind = "find"
    THEN IF FindAccepted(st.nav, final)
         THEN IF matched = st.nav.word
              THEN [ st EXCEPT !.nav.found = TRUE ]
              ELSE Raise(st)
         ELSE st
    ELSE IF ~final THEN st
    ELSE IF st.nav.index = st.nav.len
    THEN [ st EXCEPT !.nav.parts = << <<matched>> >> ]
    ELSE JoinerLoop(d, st, matched, 1)

\* the loop "for j in CompoundNavigator._JOINERS", from the k-th joiner on
JoinerLoop(d, st, matched, k) ==
    IF st.err \/ k > Len(JOINERS) THEN st
    ELSE LET j == JOINERS[k]
             lenj == Len(j)
             nav == st.nav
         IN IF \/ lenj = 0
               \/ /\ nav.index + lenj < nav.len
                  /\ SubSeq(nav.word, nav.index + 1, nav.index + lenj) = j
            THEN IF Len(Remainder(nav, lenj)) >= nav.len
                 THEN \* the same call again, without end: RecursionError
                      [ st EXCEPT !.err = TRUE, !.shorter = FALSE ]
                 ELSE
                 LET sub == navigate(d, st.cache, CompoundNavigator(Remainder(nav, lenj)))
                     result == sub.nav.parts
                     back == [ st EXCEPT !.cache = sub.cache,
                                         !.depth = IF sub.depth + 1 > @ THEN sub.depth + 1 ELSE @,
                                         !.shorter = @ /\ sub.shorter,
                                         !.past_end = @ \/ sub.past_end ]
                 IN IF sub.err THEN [ back EXCEPT !.err = TRUE ]
                    ELSE IF result # <<>>
                    THEN [ back EXCEPT !.nav.parts = @ \o [ i \in 1 .. Len(result) |->
                                                              <<matched \o j>> \o result[i] ] ]
                    ELSE JoinerLoop(d, back, matched, k + 1)
            ELSE JoinerLoop(d, st, matched, k + 1)

\* PackedDawgDictionary.navigate with PackedNavigation.go
navigate(d, cache, nav) ==
    IF ~d.has_b THEN NavState(nav, cache)
    ELSE IF accepting(nav)
    THEN navigate_from_node(d, NavState(nav, cache), d.root_offset, <<>>)
    ELSE NavState(nav, cache)

\* PackedDawgDictionary.find
find(d, cache, word) == navigate(d, cache, FindNavigator(word))

\* The sort key without the minus sign: most parts first (a mutant)
SliceKeyMostParts(x) == << Len(x[Len(x)]), Len(x) >>
\* The sort key of slice_compound_word: (len(x[-1]), -len(x))
SliceKey(x) == << Len(x[Len(x)]), 0 - Len(x) >>
KeyLess(k1, k2) == k1[1] < k2[1] \/ (k1[1] = k2[1] /\ k1[2] < k2[2])
RECURSIVE InsertDesc(_, _)
\* x goes after every element whose key is not smaller (a stable sort)
InsertDesc(sorted, x) ==
    IF sorted = <<>> THEN <<x>>
    ELSE IF KeyLess(SliceKey(Head(sorted)), SliceKey(x))
    THEN <<x>> \o sorted
    ELSE <<Head(sorted)>> \o InsertDesc(Tail(sorted), x)
RECURSIVE SortDesc(_, _, _)
\* w.sort(key = ..., reverse = True)
SortDesc(w, k, acc) ==
    IF k > Len(w) THEN acc ELSE SortDesc(w, k + 1, InsertDesc(acc, w[k]))

\* PackedDawgDictionary.slice_compound_word: the list collected, the value
\* returned (the empty sequence stands for None) and the cache afterwards
slice_compound_word(d, cache, word) ==
    LET st == navigate(d, cache, CompoundNavigator(word))
        w == SortDesc(st.nav.parts, 1, <<>>)
    IN [ err |-> st.err, cache |-> st.cache, parts |-> st.nav.parts,
         ret |-> IF st.err \/ w = <<>> THEN <<>> ELSE w[1],
         depth |-> st.depth, shorter |-> st.shorter, past_end |-> st.past_end ]

(* ---- the dictionary as a state machine: load, find, slice_compound_word ---- *)

\* The filler letter "s" of _JOINERS; "barn", "rannsokn" with o-acute (243)
Cs == 115
W_barn == <<98, 97, 114, 110>>
W_rannsokn == <<114, 97, 110, 110, 115, 243, 107, 110>>
W_barnsrannsokn == W_barn \o <<Cs>> \o W_rannsokn
W_aasb == <<97, 97, Cs, 98>>
\* "aaab": over "a", "aa", "b" it splits as a+aa+b and as aa+a+b
W_aaab == <<97, 97, 97, 98>>

\* Largest number of words in a graph of the exhaustive family
MaxGraphWords == 3
\* Longest string of the exhaustive set of words looked up
MaxWordLen == 2

SubstringsOf(w) ==
    { SubSeq(w, i, j) : i \in 1 .. Len(w), j \in 1 .. Len(w) } \ { <<>> }
\* Every word list over the substrings of "aasb" with at most MaxGraphWords
\* words, and the lists around "barn" + "s" + "rannsokn"
GraphUniverse == SubstringsOf(W_aasb)
ScenarioGraphs ==
    { {W_barn, W_rannsokn},
      {W_barn, W_rannsokn, W_barn \o <<Cs>>},
      {W_barn, W_rannsokn, SubSeq(W_barn, 1, 3), <<110, Cs>> \o W_rannsokn},
      {W_barn, W_rannsokn, <<Cs>>},
      {<<97>>, <<97, 97>>, <<97, Cs>>, <<98>>, <<98, 97>>, <<98, 98>>} }
GraphFamily ==
    { S \in SUBSET GraphUniverse : Cardinality(S) <= MaxGraphWords } \cup ScenarioGraphs

StringsUpTo(n) == UNION { [ 1 .. k -> {97, 98, Cs} ] : k \in 0 .. n }
FindWords ==
    StringsUpTo(MaxWordLen) \cup GraphUniverse
        \cup { W_barn, W_rannsokn, W_barnsrannsokn, SubSeq(W_barn, 1, 3) }
SliceWords ==
    { W_aasb, SubSeq(W_aasb, 2, 4), SubSeq(W_aasb, 1, 2), W_barnsrannsokn, W_aaab, <<>> }

(* ---- the layout of the node table, byte by byte ---- *)

\* The four bytes at offset o as an unsigned little-endian number
LittleEndian32(b, o) ==
    At(b, o) + 256 * At(b, o + 1) + 65536 * At(b, o + 2) + 16777216 * At(b, o + 3)
\* An edge whose length byte is at offset e: the length of its label, whether
\* its last character byte has the high bit, and the offset it leads to
EdgeLabelLen(b, e) == At(b, e) % 128
EdgeLastFinal(b, e) == At(b, e + EdgeLabelLen(b, e)) >= 128
EdgeNextNode(b, e) ==
    IF EdgeLastFinal(b, e) THEN 0 ELSE LittleEndian32(b, e + EdgeLabelLen(b, e) + 1)
RECURSIVE EdgeStart(_, _, _)
\* Where the length byte of the k-th edge of the node at offset o is
EdgeStart(b, o, k) ==
    IF k = 1 THEN o + 1
    ELSE LET e == EdgeStart(b, o, k - 1)
         IN e + 1 + EdgeLabelLen(b, e) + (IF EdgeLastFinal(b, e) THEN 0 ELSE 4)
NodeEdgeCount(b, o) == At(b, o) % 128
RECURSIVE NodeOffsets(_, _, _)
\* The offsets of the nodes that the edges lead to, from the nodes in todo on
NodeOffsets(b, todo, seen) ==
    IF todo = {} THEN seen
    ELSE LET o == CHOOSE x \in todo : TRUE
             next == { EdgeNextNode(b, EdgeStart(b, o, k)) : k \in 1 .. NodeEdgeCount(b, o) }
         IN NodeOffsets(b, (todo \cup (next \ {0})) \ (seen \cup {o}), seen \cup {o})
\* The file with the high bit of the length byte set on every edge whose last
\* character is final
FlaggedFile(file) ==
    LET root == 16 + LittleEndian32(file, 12)
    IN [ i \in 1 .. Len(file) |->
           IF \E o \in NodeOffsets(file, {root}, {}) :
                 \E k \in 1 .. NodeEdgeCount(file, o) :
                     EdgeStart(file, o, k) = i - 1 /\ EdgeLastFinal(file, i - 1)
           THEN file[i] + 128 ELSE file[i] ]

\* What is on disk: a well-formed file, a file whose signature is wrong, or
\* no file at all
CorruptSignature(file) == [ file EXCEPT ![1] = 0 ]
\* The same with the first eleven bytes as expected and the twelfth wrong
CorruptSignatureTail(file) == [ file EXCEPT ![12] = 0 ]
NoResult ==
    [ found |-> FALSE, parts |-> <<>>, ret |-> <<>>, err |-> FALSE,
      depth |-> 0, shorter |-> TRUE, past_end |-> FALSE ]

DawgInit ==
    /\ dg_words \in GraphFamily
    /\ \E disk \in {"ok", "badsig", "badsig_tail", "missing"}, flagged \in BOOLEAN :
        /\ disk # "ok" => dg_words \in ScenarioGraphs /\ ~flagged
        /\ flagged => dg_words \in ScenarioGraphs
        /\ dg_file = [ disk |-> disk,
                       bytes |-> CASE disk = "ok" ->
                                        IF flagged THEN FlaggedFile(PackedFile(dg_words))
                                        ELSE PackedFile(dg_words)
                                   [] disk = "badsig" -> CorruptSignature(PackedFile(dg_words))
                                   [] disk = "badsig_tail" -> CorruptSignatureTail(PackedFile(dg_words))
                                   [] OTHER -> <<>> ]
    /\ dawg = NewDawg
    /\ dg_iter_cache = << >>
    /\ dg_op = "none"
    /\ dg_arg = <<>>
    /\ dg_result = NoResult

DawgIdle ==
    /\ dg_words = {}
    /\ dg_file = [ disk |-> "missing", bytes |-> <<>> ]
    /\ dawg = NewDawg
    /\ dg_iter_cache = << >>
    /\ dg_op = "none"
    /\ dg_arg = <<>>
    /\ dg_result = NoResult

\* dawg.load(fname): open() raises when there is no file; the signature
\* assertion raises after _b has been assigned
dg_Load ==
    /\ dg_op = "none"
    /\ dawg' = IF dg_file.disk = "missing" THEN dawg ELSE load(dawg, dg_file.bytes)
    /\ dg_op' = "load"
    /\ dg_result' = [ NoResult EXCEPT !.err = dg_file.disk # "ok" ]
    /\ UNCHANGED <<dg_words, dg_file, dg_iter_cache, dg_arg>>
    /\ UNCHANGED exceptDawg

\* dawg.find(word)
dg_Find(word) ==
    /\ dg_op # "none"
    /\ LET st == find(dawg, dg_iter_cache, word)
       IN /\ dg_result' = [ found |-> ~st.err /\ st.nav.found, parts |-> <<>>,
                            ret |-> <<>>, err |-> st.err,
                            depth |-> st.depth, shorter |-> st.shorter,
                            past_end |-> st.past_end ]
          /\ dg_iter_cache' = st.cache
    /\ dg_op' = "find"
    /\ dg_arg' = word
    /\ UNCHANGED <<dg_words, dg_file, dawg>>
    /\ UNCHANGED exceptDawg

\* dawg.slice_compound_word(word)
dg_Slice(word) ==
    /\ dg_op # "none"
    /\ LET r == slice_compound_word(dawg, dg_iter_cache, word)
       IN /\ dg_result' = [ found |-> FALSE, parts |-> r.parts, ret |-> r.ret,
                            err |-> r.err,
                            depth |-> r.depth, shorter |-> r.shorter,
                            past_end |-> r.past_end ]
          /\ dg_iter_cache' = r.cache
    /\ dg_op' = "slice"
    /\ dg_arg' = word
    /\ UNCHANGED <<dg_words, dg_file, dawg>>
    /\ UNCHANGED exceptDawg

DawgNext ==
    \/ dg_Load
    \/ \E word \in FindWords : dg_Find(word)
    \/ \E word \in SliceWords : dg_Slice(word)

(***************************************************************************)
(* Specifications                                                          *)
(***************************************************************************)

(***************************************************************************)
(* BIN_Token.matches_WORD and VariantHandler / BIN_Terminal (binparser.py) *)
(*                                                                         *)
(* A text (token text, lemma, inflection string) is a sequence of          *)
(* one-character strings, so that Python's substring test 'x in s' is      *)
(* computed character by character. A word category, a variant name and a  *)
(* terminal's first part are strings; a terminal name is given by its      *)
(* parts, the name being the parts joined by "_". A bit mask is the set of *)
(* the positions of its 1 bits.                                            *)
(***************************************************************************)

\* Python: needle in hay
Contains(hay, needle) ==
    \E i \in 0 .. Len(hay) - Len(needle) : SubSeq(hay, i + 1, i + Len(needle)) = needle
\* Python: s.endswith(suffix)
EndsWith(s, suffix) ==
    Len(suffix) <= Len(s) /\ SubSeq(s, Len(s) - Len(suffix) + 1, Len(s)) = suffix
\* Python: str.lower(), on the letters the token texts use
LowerChar(c) ==
    CASE c = "F" -> "f" [] c = "H" -> "h" [] c = "N" -> "n" [] c = "Y" -> "y"
      [] c = "J" -> "j" [] c = "L" -> "l" [] c = "Ö" -> "ö" [] c = "Í" -> "í"
      [] c = "Ó" -> "ó"
      [] OTHER -> c
lower(s) == [i \in 1 .. Len(s) |-> LowerChar(s[i])]
Dash == <<"-">>

\* BIN_Token.KIND: the terminal category of a BIN word category
KIND(ordfl) == IF ordfl \in {"kk", "kvk", "hk"} THEN "no" ELSE ordfl
\* BIN_Token.VARIANT, in the order of the dict: variant name, and the string
\* that must be present in the inflection string (<<>> stands for None)
VARIANT == <<
    << "nf", <<"N", "F">> >>,
    << "þf", <<"Þ", "F">> >>,
    << "þgf", <<"Þ", "G", "F">> >>,
    << "ef", <<"E", "F">> >>,
    << "kk", <<"K", "K">> >>,
    << "kvk", <<"K", "V", "K">> >>,
    << "hk", <<"H", "K">> >>,
    << "et", <<"E", "T">> >>,
    << "ft", <<"F", "T">> >>,
    << "mst", <<"M", "S", "T">> >>,
    << "est", <<"E", "S", "T">> >>,
    << "esb", <<"E", "S", "B">> >>,
    << "evb", <<"E", "V", "B">> >>,
    << "p1", <<"1", "P">> >>,
    << "p2", <<"2", "P">> >>,
    << "p3", <<"3", "P">> >>,
    << "op", <<"O", "P">> >>,
    << "gm", <<"G", "M">> >>,
    << "mm", <<"M", "M">> >>,
    << "sb", <<"S", "B">> >>,
    << "vb", <<"V", "B">> >>,
    << "nh", <<"N", "H">> >>,
    << "fh", <<"F", "H">> >>,
    << "bh", <<"B", "H">> >>,
    << "lh", <<"L", "H">> >>,
    << "vh", <<"V", "H">> >>,
    << "nt", <<"N", "T">> >>,
    << "sagnb", <<"S", "A", "G", "N", "B">> >>,
    << "lhþt", <<"L", "H", "Þ", "T">> >>,
    << "gr", <<"g", "r">> >>,
    << "abbrev", <<>> >>,
    << "subj", <<>> >>,
    << "sþf", <<>> >>,
    << "sþgf", <<>> >>,
    << "sef", <<>> >> >>
VariantNames == { VARIANT[i][1] : i \in 1 .. Len(VARIANT) }
VariantIndex(v) == CHOOSE i \in 1 .. Len(VARIANT) : VARIANT[i][1] = v
VariantTag(v) == VARIANT[VariantIndex(v)][2]
\* VBIT = {key: 1 << i for i, key in enumerate(VARIANT.keys())}
VBIT(v) == { VariantIndex(v) - 1 }
VBITS(vs) == UNION { VBIT(v) : v \in vs }
\* FBIT = {val: 1 << i for i, val in enumerate(VARIANT.values()) if val}
FBIT == { << VARIANT[i][2], i - 1 >> : i \in { j \in 1 .. Len(VARIANT) : VARIANT[j][2] # <<>> } }
VBIT_SCASES == VBITS({"sþf", "sþgf", "sef"})
FBIT_MASK == VBITS({"abbrev", "subj"}) \cup VBIT_SCASES
CASES == <<"nf", "þf", "þgf", "ef">>
GENDERS_SET == {"kk", "kvk", "hk"}
VBIT_CASES == VBITS({"nf", "þf", "þgf", "ef"})
VBIT_GENDERS == VBITS({"kk", "kvk", "hk"})
VBIT_NUMBER == VBITS({"et", "ft"})
\* GENDERS_MAP.get(ordfl, "")
GENDERS_MAP(ordfl) ==
    CASE ordfl = "kk" -> <<"K", "K">> [] ordfl = "kvk" -> <<"K", "V", "K">>
      [] ordfl = "hk" -> <<"H", "K">> [] OTHER -> <<>>

\* BIN_Token.fbits: the bits of the FBIT keys that occur in the inflection
\* string. get_fbits caches this value by inflection string.
fbits(beyging) == { p[2] : p \in { x \in FBIT : Contains(beyging, x[1]) } }
get_fbits(beyging) == fbits(beyging)
(* ---- configuration tables (read from the .conf files), small samples ---- *)

\* Prepositions.PP: preposition -> the cases it controls; Prepositions.PP_NH
PP == { << <<"t", "i", "l">>, {"ef"} >>, << <<"s", "a", "m", "k", "v", "æ", "m", "t">>, {"þgf"} >>, << <<"á">>, {"þf", "þgf"} >> }
PP_keys == { p[1] : p \in PP }
\* Prepositions.PP[fs]: PP is a defaultdict(set)
PP_of(fs) == IF fs \in PP_keys THEN (CHOOSE p \in PP : p[1] = fs)[2] ELSE {}
\* What a matching or scoring function returns together with the keys it
\* has subscripted in the tables: (table, key) pairs
Ret(b) == [ ret |-> b, sub |-> {} ]
RetSub(b, s) == [ ret |-> b, sub |-> s ]
\* The default value that a defaultdict table inserts for a missing key
DefaultOf(table) == IF table \in {"VERBS1", "VERBS2", "Preferences"} THEN <<>> ELSE {}
\* The tables after the subscripts subs: table[key] on a missing key of a
\* defaultdict inserts the key with the default value
Subscripted(tables, subs) ==
    [ name \in DOMAIN tables |->
        tables[name] \cup
        { << s[2], DefaultOf(name) >> :
            s \in { x \in subs : x[1] = name /\ \A q \in tables[name] : q[1] # x[2] } } ]
PP_NH == { <<"t", "i", "l">> }
\* AdjectivePredicates.ARGUMENTS.get(lemma, set())
ADJ_ARGUMENTS(lemma) == IF lemma = <<"s", "a", "m", "þ", "y", "k", "k", "u", "r">> THEN {"þgf"} ELSE {}
NOT_EO == { <<"o", "g">>, <<"e", "ð", "a">>, <<"s", "e", "m">>, <<"e", "k", "k", "e", "r", "t">> }
NOT_NOT_EO == { <<"i", "n", "n">>, <<"e", "f", "t", "i", "r">>, <<"t", "i", "l">>, <<"u", "p", "p">>, <<"u", "m">> }
NOT_PROPER_NAME == { <<"é", "g">>, <<"h", "a", "n", "n">>, <<"þ", "a", "ð">>, <<"í">>, <<"á">>, <<"t", "i", "l">>, <<"o", "g">>, <<"s", "e", "m">> }
CORPORATION_ENDINGS == { <<"e", "h", "f", ".">>, <<"h", "f", ".">> }
\* The variants 'x...' (the lemma must end so) and 'z...' (the word form
\* must end so) of the noun terminals used here: v[1:]
StemEnding == { << "xir", <<"i", "r">> >> }
FormEnding == { << "zið", <<"i", "ð">> >> }
EndingOf(table, v) == (CHOOSE p \in table : p[1] = v)[2]
(* ---- VariantHandler ---- *)

RECURSIVE JoinCases(_, _, _)
\* "".join("_" + self._vparts[1 + i] for i in range(ncases)), as the parts
JoinCases(vparts, i, ncases) ==
    IF i >= ncases THEN <<>> ELSE <<vparts[2 + i]>> \o JoinCases(vparts, i + 1, ncases)
\* VariantHandler.__init__ for a name that is not a literal
VariantHandler(parts) ==
    LET vparts == Tail(parts)
        vset == { vparts[i] : i \in 1 .. Len(vparts) }
        vbits == VBITS(vset \cap VariantNames)
    IN [ first |-> parts[1],
         vparts |-> vparts,
         vcount |-> Len(vparts),
         vset |-> vset,
         vbits |-> vbits,
         fbits |-> vbits \ FBIT_MASK,
         cases |-> IF Len(vparts) >= 1 /\ vparts[1] \in {"0", "1", "2"}
                   THEN JoinCases(vparts, 0, IF vparts[1] = "0" THEN 0
                                             ELSE IF vparts[1] = "1" THEN 1 ELSE 2)
                   ELSE <<>> ]
startswith(terminal, part) == terminal.first = part
matches_first(terminal, t_kind) == terminal.first = KIND(t_kind)
has_variant(terminal, v) == v \in terminal.vset
has_vbits(terminal, vbits) == (terminal.vbits \cap vbits) = vbits
has_any_vbits(terminal, vbits) == (terminal.vbits \cap vbits) # {}
\* The test with the two masks exchanged (a mutant)
fbits_match_reversed(terminal, fb) == (fb \ terminal.fbits) = {}
\* return (self._fbits & ~fbits) == 0
fbits_match(terminal, fb) == (terminal.fbits \ fb) = {}
\* return (self._fbits & mask & ~fbits) == 0
fbits_match_mask(terminal, mask, fb) == ((terminal.fbits \cap mask) \ fb) = {}
is_abbrev(terminal) == (terminal.vbits \cap VBIT("abbrev")) # {}
(* ---- BIN_Token ---- *)

\* BIN_Token.__init__ for a word token: t1, t1_lower, t2, is_upper, _is_eo
BIN_Token(t1, t2) ==
    [ t1 |-> t1, t1_lower |-> lower(t1), t2 |-> t2,
      is_upper |-> t1[1] # lower(t1)[1], is_eo |-> "None" ]

\* Python: s.rsplit("-", maxsplit=1)[-1]
RECURSIVE LastPart(_)
LastPart(s) ==
    IF \A i \in 1 .. Len(s) : s[i] # "-" THEN s
    ELSE LastPart(Tail(s))

\* A noun matcher that looks at the word category only
matcher_no_category_only(tok, terminal, m) == m.ordfl \in GENDERS_SET

matcher_no(tok, terminal, m) ==
    IF m.ordfl \notin GENDERS_SET THEN FALSE
    ELSE IF is_abbrev(terminal) THEN m.beyging = Dash
    ELSE IF m.fl = "nafn" THEN FALSE
    ELSE \A i \in 1 .. Len(terminal.vparts) :
           LET v == terminal.vparts[i]
           IN IF v \in GENDERS_SET THEN m.ordfl = v
              ELSE IF v \in { p[1] : p \in StemEnding } THEN EndsWith(m.stofn, EndingOf(StemEnding, v))
              ELSE IF v \in { p[1] : p \in FormEnding } THEN EndsWith(tok.t1_lower, EndingOf(FormEnding, v))
              ELSE IF m.beyging = Dash THEN v # "gr"
              ELSE Contains(m.beyging, VariantTag(v))

matcher_lo(tok, terminal, m) ==
    IF m.ordfl # "lo" THEN FALSE
    ELSE IF /\ has_any_vbits(terminal, VBIT_SCASES)
            /\ LET scase == IF has_variant(terminal, "sþf") THEN "þf"
                            ELSE IF has_variant(terminal, "sþgf") THEN "þgf"
                            ELSE "ef"
               IN scase \notin ADJ_ARGUMENTS(LastPart(m.stofn))
    THEN FALSE
    ELSE IF m.beyging = Dash THEN TRUE
    ELSE fbits_match(terminal, get_fbits(m.beyging))

matcher_abfn(tok, terminal, m) ==
    IF m.ordfl # "abfn" THEN FALSE
    ELSE fbits_match_mask(terminal, VBIT_CASES, get_fbits(m.beyging))

matcher_pfn(tok, terminal, m) ==
    IF m.ordfl # "pfn" THEN FALSE
    ELSE fbits_match_mask(terminal, VBIT_CASES \cup VBIT_NUMBER, get_fbits(m.beyging))

matcher_stt(tok, terminal, m) ==
    m.ordfl = "st" /\ m.stofn \in { <<"s", "e", "m">>, <<"e", "r">> }

\* The value matcher_eo computes and caches in self._is_eo
is_eo(tok) ==
    IF tok.is_eo # "None" THEN tok.is_eo = "True"
    ELSE IF tok.t1_lower \in NOT_EO THEN FALSE
    ELSE IF tok.t1_lower \in NOT_NOT_EO THEN TRUE
    ELSE ~ ( \/ tok.t1_lower \in PP_keys
             \/ \E i \in 1 .. Len(tok.t2) : tok.t2[i].ordfl = "fn" )
matcher_eo(tok, terminal, m) ==
    IF m.ordfl # "ao" THEN FALSE ELSE is_eo(tok)

matcher_ao(tok, terminal, m) ==
    IF m.ordfl # "ao" THEN FALSE
    ELSE fbits_match(terminal, get_fbits(m.beyging))

\* The test left out (a mutant)
PrepositionListedAny(fs) == TRUE
\* fs in Prepositions.PP
PrepositionListed(fs) == fs \in PP_keys
\* matcher_fs(m): the value returned and the keys of PP subscripted
matcher_fs_call(tok, terminal, m) ==
    IF terminal.vcount = 0 THEN Ret(FALSE)
    ELSE LET fs == IF Contains(tok.t1_lower, <<".">>) THEN m.stofn ELSE tok.t1_lower
         IN IF ~PrepositionListed(fs) THEN Ret(FALSE)
            ELSE IF terminal.vparts[1] = "nh" THEN Ret(fs \in PP_NH)
            ELSE RetSub(terminal.vparts[1] \in PP_of(fs), { << "PP", fs >> })
matcher_fs(tok, terminal, m) == matcher_fs_call(tok, terminal, m).ret

matcher_tol(tok, terminal, m) == matches_first(terminal, m.ordfl)

matcher_person(tok, terminal, m) ==
    IF m.fl # "nafn" THEN FALSE
    ELSE IF has_vbits(terminal, VBIT("hk")) THEN FALSE
    ELSE IF /\ m.beyging # Dash
            /\ \E i \in 1 .. Len(CASES) :
                 Contains(m.beyging, VariantTag(CASES[i])) /\ ~has_variant(terminal, CASES[i])
    THEN FALSE
    ELSE IF has_vbits(terminal, VBIT("kk")) /\ m.ordfl # "kk" THEN FALSE
    ELSE IF has_vbits(terminal, VBIT("kvk")) /\ m.ordfl # "kvk" THEN FALSE
    ELSE TRUE

matcher_gata(tok, terminal, m) ==
    IF m.fl # "göt" THEN FALSE
    ELSE IF KIND(m.ordfl) # "no" THEN FALSE
    ELSE \A i \in 1 .. Len(terminal.vparts) :
           LET v == terminal.vparts[i]
           IN IF v \in GENDERS_SET THEN m.ordfl = v
              ELSE Contains(m.beyging, VariantTag(v))

matcher_fyrirtaeki(tok, terminal, m) == tok.t1 \in CORPORATION_ENDINGS

matcher_sernafn(tok, terminal, m) ==
    IF ~tok.is_upper THEN FALSE
    ELSE IF tok.t1_lower \in NOT_PROPER_NAME THEN FALSE
    ELSE IF Contains(tok.t1_lower, <<" ">>) THEN FALSE
    ELSE IF terminal.vcount = 0
         THEN tok.t2 = <<>> \/ Contains(tok.t2[1].stofn, Dash)
    ELSE /\ KIND(m.ordfl) \in {"no", "lo"}
         /\ fbits_match(terminal, get_fbits(m.beyging) \cap VBIT_CASES)

matcher_default(tok, terminal, m) ==
    IF ~matches_first(terminal, m.ordfl) THEN FALSE
    ELSE IF m.beyging = Dash /\ m.ordfl = "lo" THEN TRUE
    ELSE IF m.beyging = Dash /\ m.ordfl \in GENDERS_SET
         THEN fbits_match_mask(terminal, VBIT_GENDERS \cup VBIT_NUMBER,
                               VBIT(m.ordfl) \cup VBIT("et"))
    ELSE IF m.beyging = Dash THEN fbits_match(terminal, {})
    ELSE fbits_match(terminal, get_fbits(m.beyging \o GENDERS_MAP(m.ordfl)))

(* ---- verbs: the tables of settings.py and BIN_Token.verb_matches ---- *)

\* VerbObjects.VERBS (BIN_Token._VERB_OBJECTS), a sample as VerbObjects.add
\* leaves it: [1] the verbs without an argument, [2] and [3] the verbs with
\* one and with two arguments, each with its list of argument lists
VERB_OBJECTS ==
    << { << <<"h", "o", "r", "f", "a">>, << <<>> >> >>, << <<"s", "o", "f", "a">>, << <<>> >> >> },
       { << <<"s", "a", "k", "n", "a">>, << <<"ef">> >> >>,
         << <<"h", "j", "á", "l", "p", "a">>, << <<"þgf">> >> >>,
         << <<"g", "e", "f", "a">>, << <<"þf">> >> >>,
         << <<"h", "o", "r", "f", "a">>, << <<"þgf">> >> >>,
         << <<"a", "t", "h", "u", "g", "a">>, << <<"þf">> >> >>,
         << <<"e", "i", "g", "n", "a", "s", "t">>, << <<"þf">> >> >>,
         << <<"l", "a", "n", "g", "a">>, << <<"þf">> >> >>,
         << <<"b", "r", "e", "y", "t", "a">>, << <<"þgf">>, <<"sig">> >> >> },
       { << <<"g", "e", "f", "a">>, << <<"þgf", "þf">> >> >> } >>
\* verb in self._VERB_OBJECTS[nargs]
VerbListed(nargs, verb) == \E p \in VERB_OBJECTS[nargs + 1] : p[1] = verb
\* self._VERB_OBJECTS[nargs][verb]
\* (a defaultdict(list) for one and two arguments)
VerbArgs(nargs, verb) ==
    IF VerbListed(nargs, verb) THEN (CHOOSE p \in VERB_OBJECTS[nargs + 1] : p[1] = verb)[2]
    ELSE <<>>
\* The table subscripted by self._VERB_OBJECTS[nargs][verb]
VerbTable(nargs) == IF nargs = 1 THEN "VERBS1" ELSE "VERBS2"
\* VerbSubjects.VERBS (BIN_Token._VERB_SUBJECTS): verb -> set of subject cases
VERB_SUBJECTS ==
    { << <<"l", "a", "n", "g", "a">>, {"þf"} >>, << <<"d", "r", "e", "y", "m", "a">>, {"þf"} >>, << <<"þ", "y", "k", "j", "a">>, {"þgf", "lhþt"} >>,
      << <<"r", "i", "g", "n", "a">>, {"none"} >> }
\* VerbSubjects.VERBS_ERRORS: verb -> the subject cases marked with $error
VERBS_ERRORS == { << <<"d", "r", "e", "y", "m", "a">>, {"nf"} >> }
\* BIN_Token.VERB_VARIANTS
VERB_VARIANTS ==
    {"p1", "p2", "p3", "nh", "vh", "lh", "bh", "fh", "sagnb", "lhþt", "nt",
     "kk", "kvk", "hk", "sb", "vb", "gm", "mm"}

is_singular(terminal) == (terminal.vbits \cap VBIT("et")) # {}
is_plural(terminal) == (terminal.vbits \cap VBIT("ft")) # {}
is_nh(terminal) == (terminal.vbits \cap VBIT("nh")) # {}
is_mm(terminal) == (terminal.vbits \cap VBIT("mm")) # {}
is_gm(terminal) == (terminal.vbits \cap VBIT("gm")) # {}
is_subj(terminal) == (terminal.vbits \cap VBIT("subj")) # {}
is_sagnb(terminal) == (terminal.vbits \cap VBIT("sagnb")) # {}
\* VBIT_LH = VBIT["lhþt"]
is_lh(terminal) == (terminal.vbits \cap VBIT("lhþt")) # {}
\* VBIT_LHNT = VBIT["lh"] | VBIT["nt"]
is_lh_nt(terminal) == (terminal.vbits \cap VBITS({"lh", "nt"})) = VBITS({"lh", "nt"})

\* return verb if verb.endswith("st") else verb + "st"
mm_verb_stem(verb) == IF EndsWith(verb, <<"s", "t">>) THEN verb ELSE verb \o <<"s", "t">>
verb_is_strictly_impersonal(verb) == \E p \in VERBS_ERRORS : p[1] = verb /\ "nf" \in p[2]
verb_cannot_be_impersonal(verb, form) == ~Contains(form, <<"O", "P">>)
verb_subject_matches(verb, subj) == \E p \in VERB_SUBJECTS : p[1] = verb /\ subj \in p[2]

\* The check of the restrictive variants left out (a mutant)
RestrictiveOKNever(terminal, form) == TRUE
\* for v in ("sagnb", "lhþt", "bh", "op"):
\*     if BIN_Token.VARIANT[v] in form and not terminal.has_variant(v): return False
RestrictiveOK(terminal, form) ==
    \A v \in {"sagnb", "lhþt", "bh", "op"} :
        ~(Contains(form, VariantTag(v)) /\ ~has_variant(terminal, v))

\* The argument lists compared by their length only (a mutant)
ArgspecMatchesAny(terminal, argspec) == Len(argspec) < terminal.vcount
\* all(terminal.variant(1 + ix) == c for ix, c in enumerate(argspec))
ArgspecMatches(terminal, argspec) ==
    \A ix \in 1 .. Len(argspec) : terminal.vparts[1 + ix] = argspec[ix]

\* int(terminal.variant(0))
NArgs(terminal) ==
    IF terminal.vparts[1] = "0" THEN 0 ELSE IF terminal.vparts[1] = "1" THEN 1 ELSE 2

\* BIN_Token.verb_matches for a terminal with the variant subj. The terminals
\* of the grammar that have an argument number here have the number 1 and a
\* case after it (the two assert statements of the code).
verb_matches_subj_call(verb, terminal, form) ==
    LET form_lh == Contains(form, <<"L", "H", "Þ", "T">>)
        form_sagnb == Contains(form, <<"S", "A", "G", "N", "B">>)
        numbered == terminal.vparts[1] \in {"0", "1", "2"}
        \* verb_objects[verb], reached for a terminal with an argument number
        sub == IF numbered THEN { << VerbTable(1), verb >> } ELSE {}
    IN IF is_nh(terminal) /\ ~Contains(form, <<"N", "H">>) THEN Ret(FALSE)
       ELSE IF is_mm(terminal) THEN Ret(Contains(form, <<"M", "M">>))
       ELSE IF is_gm(terminal) /\ ~Contains(form, <<"G", "M">>) THEN Ret(FALSE)
       ELSE IF is_singular(terminal) /\ ~Contains(form, <<"E", "T">>) THEN Ret(FALSE)
       ELSE IF is_plural(terminal) /\ ~Contains(form, <<"F", "T">>) THEN Ret(FALSE)
       ELSE IF is_lh(terminal) THEN Ret(form_lh /\ verb_subject_matches(verb, "lhþt"))
       ELSE IF form_lh THEN Ret(FALSE)
       ELSE IF has_variant(terminal, "none")
            THEN IF is_sagnb(terminal) # form_sagnb THEN Ret(FALSE)
                 ELSE Ret(verb_subject_matches(verb, "none"))
       ELSE IF form_sagnb /\ ~is_sagnb(terminal) THEN Ret(FALSE)
       ELSE IF has_variant(terminal, "op") /\ verb_cannot_be_impersonal(verb, form) THEN Ret(FALSE)
       ELSE IF numbered /\ NArgs(terminal) # 1 THEN Ret(FALSE)
       ELSE IF numbered /\ ~VerbListed(1, verb) THEN Ret(FALSE)
       ELSE IF numbered /\ \A k \in DOMAIN VerbArgs(1, verb) :
                               terminal.vparts[2] # VerbArgs(1, verb)[k][1] THEN RetSub(FALSE, sub)
       ELSE RetSub(verb_subject_matches(verb, terminal.vparts[terminal.vcount]), sub)
verb_matches_subj(verb, terminal, form) == verb_matches_subj_call(verb, terminal, form).ret

\* BIN_Token.verb_matches(verb, terminal, form): the value returned and the
\* keys of the verb tables subscripted
verb_matches_call(verb, terminal, form) ==
    IF is_subj(terminal) THEN verb_matches_subj_call(verb, terminal, form)
    ELSE IF verb_is_strictly_impersonal(verb) THEN Ret(FALSE)
    ELSE IF is_singular(terminal) /\ Contains(form, <<"F", "T">>) THEN Ret(FALSE)
    ELSE IF is_plural(terminal) /\ Contains(form, <<"E", "T">>) THEN Ret(FALSE)
    ELSE IF \E i \in 1 .. terminal.vcount :
               /\ terminal.vparts[i] \in VERB_VARIANTS
               /\ ~Contains(form, VariantTag(terminal.vparts[i])) THEN Ret(FALSE)
    ELSE IF ~RestrictiveOK(terminal, form) THEN Ret(FALSE)
    ELSE IF is_lh(terminal) /\ Contains(form, <<"V", "B">>) /\ ~has_variant(terminal, "vb") THEN Ret(FALSE)
    ELSE IF has_variant(terminal, "bh") /\ Contains(form, <<"S", "T">>) THEN Ret(FALSE)
    ELSE IF terminal.vcount = 0 \/ terminal.vparts[1] \notin {"0", "1", "2"}
         THEN Ret(~(is_lh(terminal) /\ \E k \in DOMAIN CASES :
                    has_variant(terminal, CASES[k]) /\ ~Contains(form, VariantTag(CASES[k]))))
    ELSE LET is_mm_form == Contains(form, <<"M", "M">>)
             nargs == NArgs(terminal)
             v == IF is_mm_form THEN mm_verb_stem(verb) ELSE verb
         IN IF VerbListed(nargs, v)
            THEN IF nargs = 0 THEN Ret(TRUE)
                 ELSE IF terminal.vcount < 2 THEN Ret(TRUE)
                 ELSE IF nargs > 1 /\ is_mm_form THEN Ret(FALSE)
                 ELSE RetSub(\E k \in DOMAIN VerbArgs(nargs, v) :
                                 ArgspecMatches(terminal, VerbArgs(nargs, v)[k]),
                             { << VerbTable(nargs), v >> })
            ELSE Ret(~(\E i \in 0 .. nargs - 1 : VerbListed(i, v)))
verb_matches(verb, terminal, form) == verb_matches_call(verb, terminal, form).ret

\* matcher_so(m)
matcher_so(tok, terminal, m) ==
    IF m.ordfl # "so" THEN FALSE
    ELSE IF m.beyging = Dash THEN ~is_lh_nt(terminal)
    ELSE verb_matches(LastPart(m.stofn), terminal, m.beyging)

\* The categories that have a matcher_<category> function in matches_WORD
OwnMatchers ==
    {"so", "no", "lo", "abfn", "pfn", "stt", "eo", "ao", "fs", "töl", "person",
     "gata", "fyrirtæki", "sérnafn"}
\* matcher = locals().get("matcher_" + terminal.matcher, matcher_default)
matcher(tok, terminal, m) ==
    CASE terminal.first = "so" -> matcher_so(tok, terminal, m)
      [] terminal.first = "no" -> matcher_no(tok, terminal, m)
      [] terminal.first = "lo" -> matcher_lo(tok, terminal, m)
      [] terminal.first = "abfn" -> matcher_abfn(tok, terminal, m)
      [] terminal.first = "pfn" -> matcher_pfn(tok, terminal, m)
      [] terminal.first = "stt" -> matcher_stt(tok, terminal, m)
      [] terminal.first = "eo" -> matcher_eo(tok, terminal, m)
      [] terminal.first = "ao" -> matcher_ao(tok, terminal, m)
      [] terminal.first = "fs" -> matcher_fs(tok, terminal, m)
      [] terminal.first = "töl" -> matcher_tol(tok, terminal, m)
      [] terminal.first = "person" -> matcher_person(tok, terminal, m)
      [] terminal.first = "gata" -> matcher_gata(tok, terminal, m)
      [] terminal.first = "fyrirtæki" -> matcher_fyrirtaeki(tok, terminal, m)
      [] terminal.first = "sérnafn" -> matcher_sernafn(tok, terminal, m)
      [] OTHER -> matcher_default(tok, terminal, m)

RECURSIVE FirstMatching(_, _, _)
\* next((m for m in self.t2 if matcher(m)), False): the index of the first
\* reading that matches (0 for False), and the token with the _is_eo cache
\* as the matchers called on the way leave it
FirstMatching(tok, terminal, i) ==
    IF i > Len(tok.t2) THEN [ index |-> 0, tok |-> tok ]
    ELSE LET m == tok.t2[i]
             tok1 == IF terminal.first = "eo" /\ m.ordfl = "ao" /\ tok.is_eo = "None"
                     THEN [tok EXCEPT !.is_eo = IF is_eo(tok) THEN "True" ELSE "False"]
                     ELSE tok
         IN IF matcher(tok, terminal, m) THEN [ index |-> i, tok |-> tok1 ]
            ELSE FirstMatching(tok1, terminal, i + 1)

\* BIN_Token.matches_WORD: what it returns ("False", "True", or "meaning"
\* with the index of the reading returned) and the token afterwards
matches_WORD(tok, terminal) ==
    IF tok.t2 # <<>>
    THEN LET r == FirstMatching(tok, terminal, 1)
         IN [ ret |-> IF r.index = 0 THEN "False" ELSE "meaning", index |-> r.index,
              tok |-> r.tok ]
    ELSE IF /\ tok.is_upper
            /\ startswith(terminal, "sérnafn")
            /\ terminal.vcount = 0
            /\ ~Contains(tok.t1_lower, <<" ">>)
    THEN [ ret |-> "True", index |-> 0, tok |-> tok ]
    ELSE [ ret |-> IF /\ startswith(terminal, "no")
                      /\ has_vbits(terminal, VBIT("et") \cup VBIT("hk"))
                      /\ ~has_vbits(terminal, VBIT("gr"))
                   THEN "True" ELSE "False",
           index |-> 0, tok |-> tok ]

\* BIN_Token.match_with_meaning: a BIN_Terminal has no shortcut_match, and
\* the matching function of a word token is matches_WORD
match_with_meaning(tok, terminal) == matches_WORD(tok, terminal)

\* The table keys subscripted by matcher(m): the other matchers read the
\* tables with 'in' and .get only
matcher_subscripts(tok, terminal, m) ==
    IF terminal.first = "fs" THEN matcher_fs_call(tok, terminal, m).sub
    ELSE IF terminal.first = "so" /\ m.ordfl = "so" /\ m.beyging # Dash
    THEN verb_matches_call(LastPart(m.stofn), terminal, m.beyging).sub
    ELSE {}
\* The table keys subscripted by match_with_meaning: those of the matcher
\* calls made, on the readings up to the first that matches
match_subscripts(tok, terminal) ==
    LET r == FirstMatching(tok, terminal, 1)
        last == IF r.index = 0 THEN Len(tok.t2) ELSE r.index
    IN UNION { matcher_subscripts(tok, terminal, tok.t2[i]) : i \in 1 .. last }
(* ---- the matcher as a state machine: build a terminal, build a token, match ---- *)

\* Readings (BIN_Meaning tuples) of the words used below
R == [
    hus_NFET |-> [stofn |-> <<"h", "ú", "s">>, ordfl |-> "hk", fl |-> "alm", ordmynd |-> <<"h", "ú", "s">>, beyging |-> <<"N", "F", "E", "T">>],
    hus_TFET |-> [stofn |-> <<"h", "ú", "s">>, ordfl |-> "hk", fl |-> "alm", ordmynd |-> <<"h", "ú", "s">>, beyging |-> <<"Þ", "F", "E", "T">>],
    hus_NFFT |-> [stofn |-> <<"h", "ú", "s">>, ordfl |-> "hk", fl |-> "alm", ordmynd |-> <<"h", "ú", "s">>, beyging |-> <<"N", "F", "F", "T">>],
    husid_NFETgr |-> [stofn |-> <<"h", "ú", "s">>, ordfl |-> "hk", fl |-> "alm", ordmynd |-> <<"h", "ú", "s", "i", "ð">>, beyging |-> <<"N", "F", "E", "T", "g", "r">>],
    hestur_NFET |-> [stofn |-> <<"h", "e", "s", "t", "u", "r">>, ordfl |-> "kk", fl |-> "alm", ordmynd |-> <<"h", "e", "s", "t", "u", "r">>, beyging |-> <<"N", "F", "E", "T">>],
    laeknir_NFET |-> [stofn |-> <<"l", "æ", "k", "n", "i", "r">>, ordfl |-> "kk", fl |-> "alm", ordmynd |-> <<"l", "æ", "k", "n", "i", "r">>, beyging |-> <<"N", "F", "E", "T">>],
    hr_abbrev |-> [stofn |-> <<"h", "e", "r", "r", "a">>, ordfl |-> "kk", fl |-> "alm", ordmynd |-> <<"h", "r", ".">>, beyging |-> <<"-">>],
    Jon_NFET |-> [stofn |-> <<"J", "ó", "n">>, ordfl |-> "kk", fl |-> "nafn", ordmynd |-> <<"J", "ó", "n">>, beyging |-> <<"N", "F", "E", "T">>],
    Anna_TFET |-> [stofn |-> <<"A", "n", "n", "a">>, ordfl |-> "kvk", fl |-> "nafn", ordmynd |-> <<"Ö", "n", "n", "u">>, beyging |-> <<"Þ", "F", "E", "T">>],
    Laugavegur_NFET |-> [stofn |-> <<"L", "a", "u", "g", "a", "v", "e", "g", "u", "r">>, ordfl |-> "kk", fl |-> "göt", ordmynd |-> <<"L", "a", "u", "g", "a", "v", "e", "g", "u", "r">>, beyging |-> <<"N", "F", "E", "T">>],
    godur_NFET |-> [stofn |-> <<"g", "ó", "ð", "u", "r">>, ordfl |-> "lo", fl |-> "alm", ordmynd |-> <<"g", "ó", "ð", "u", "r">>, beyging |-> <<"F", "S", "B", "-", "K", "K", "-", "N", "F", "E", "T">>],
    bestur_NFET |-> [stofn |-> <<"g", "ó", "ð", "u", "r">>, ordfl |-> "lo", fl |-> "alm", ordmynd |-> <<"b", "e", "s", "t", "u", "r">>, beyging |-> <<"E", "S", "B", "-", "K", "K", "-", "N", "F", "E", "T">>],
    samthykkur_NFET |-> [stofn |-> <<"s", "a", "m", "þ", "y", "k", "k", "u", "r">>, ordfl |-> "lo", fl |-> "alm", ordmynd |-> <<"s", "a", "m", "þ", "y", "k", "k", "u", "r">>, beyging |-> <<"F", "S", "B", "-", "K", "K", "-", "N", "F", "E", "T">>],
    haestv_abbrev |-> [stofn |-> <<"h", "æ", "s", "t", "v", "i", "r", "t", "u", "r">>, ordfl |-> "lo", fl |-> "alm", ordmynd |-> <<"h", "æ", "s", "t", "v", ".">>, beyging |-> <<"-">>],
    vel_ao |-> [stofn |-> <<"v", "e", "l">>, ordfl |-> "ao", fl |-> "alm", ordmynd |-> <<"v", "e", "l">>, beyging |-> <<"-">>],
    betur_MST |-> [stofn |-> <<"v", "e", "l">>, ordfl |-> "ao", fl |-> "alm", ordmynd |-> <<"b", "e", "t", "u", "r">>, beyging |-> <<"M", "S", "T">>],
    til_ao |-> [stofn |-> <<"t", "i", "l">>, ordfl |-> "ao", fl |-> "alm", ordmynd |-> <<"t", "i", "l">>, beyging |-> <<"-">>],
    til_fs |-> [stofn |-> <<"t", "i", "l">>, ordfl |-> "fs", fl |-> "alm", ordmynd |-> <<"t", "i", "l">>, beyging |-> <<"-">>],
    skv_fs |-> [stofn |-> <<"s", "a", "m", "k", "v", "æ", "m", "t">>, ordfl |-> "fs", fl |-> "alm", ordmynd |-> <<"s", "k", "v", ".">>, beyging |-> <<"-">>],
    hann_pfn |-> [stofn |-> <<"h", "a", "n", "n">>, ordfl |-> "pfn", fl |-> "alm", ordmynd |-> <<"h", "a", "n", "n">>, beyging |-> <<"K", "K", "-", "N", "F", "E", "T">>],
    eg_pfn |-> [stofn |-> <<"é", "g">>, ordfl |-> "pfn", fl |-> "alm", ordmynd |-> <<"é", "g">>, beyging |-> <<"N", "F", "E", "T">>],
    sig_abfn |-> [stofn |-> <<"s", "i", "g">>, ordfl |-> "abfn", fl |-> "alm", ordmynd |-> <<"s", "i", "g">>, beyging |-> <<"Þ", "F">>],
    sa_fn |-> [stofn |-> <<"s", "á">>, ordfl |-> "fn", fl |-> "alm", ordmynd |-> <<"s", "á">>, beyging |-> <<"K", "K", "-", "N", "F", "E", "T">>],
    thessi_fn |-> [stofn |-> <<"þ", "e", "s", "s", "i">>, ordfl |-> "fn", fl |-> "alm", ordmynd |-> <<"þ", "e", "s", "s", "i">>, beyging |-> <<"K", "V", "K", "-", "N", "F", "E", "T">>],
    sem_st |-> [stofn |-> <<"s", "e", "m">>, ordfl |-> "st", fl |-> "alm", ordmynd |-> <<"s", "e", "m">>, beyging |-> <<"-">>],
    og_st |-> [stofn |-> <<"o", "g">>, ordfl |-> "st", fl |-> "alm", ordmynd |-> <<"o", "g">>, beyging |-> <<"-">>],
    fimm_tol |-> [stofn |-> <<"f", "i", "m", "m">>, ordfl |-> "töl", fl |-> "alm", ordmynd |-> <<"f", "i", "m", "m">>, beyging |-> <<"-">>],
    ehf_hk |-> [stofn |-> <<"e", "i", "n", "k", "a", "h", "l", "u", "t", "a", "f", "é", "l", "a", "g">>, ordfl |-> "hk", fl |-> "alm", ordmynd |-> <<"e", "h", "f", ".">>, beyging |-> <<"-">>],
    saknar_so |-> [stofn |-> <<"s", "a", "k", "n", "a">>, ordfl |-> "so", fl |-> "alm", ordmynd |-> <<"s", "a", "k", "n", "a", "r">>, beyging |-> <<"G", "M", "-", "F", "H", "-", "N", "T", "-", "3", "P", "-", "E", "T">>],
    hjalpar_so |-> [stofn |-> <<"h", "j", "á", "l", "p", "a">>, ordfl |-> "so", fl |-> "alm", ordmynd |-> <<"h", "j", "á", "l", "p", "a", "r">>, beyging |-> <<"G", "M", "-", "F", "H", "-", "N", "T", "-", "3", "P", "-", "E", "T">>],
    hjalpa_FT |-> [stofn |-> <<"h", "j", "á", "l", "p", "a">>, ordfl |-> "so", fl |-> "alm", ordmynd |-> <<"h", "j", "á", "l", "p", "a">>, beyging |-> <<"G", "M", "-", "F", "H", "-", "N", "T", "-", "3", "P", "-", "F", "T">>],
    hjalpad_SAGNB |-> [stofn |-> <<"h", "j", "á", "l", "p", "a">>, ordfl |-> "so", fl |-> "alm", ordmynd |-> <<"h", "j", "á", "l", "p", "a", "ð">>, beyging |-> <<"G", "M", "-", "S", "A", "G", "N", "B">>],
    hjalpadu_BH |-> [stofn |-> <<"h", "j", "á", "l", "p", "a">>, ordfl |-> "so", fl |-> "alm", ordmynd |-> <<"h", "j", "á", "l", "p", "a", "ð", "u">>, beyging |-> <<"G", "M", "-", "B", "H", "-", "E", "T">>],
    hjalpa_BHST |-> [stofn |-> <<"h", "j", "á", "l", "p", "a">>, ordfl |-> "so", fl |-> "alm", ordmynd |-> <<"h", "j", "á", "l", "p", "a">>, beyging |-> <<"G", "M", "-", "B", "H", "-", "S", "T">>],
    hjalpadur_LHTT |-> [stofn |-> <<"h", "j", "á", "l", "p", "a">>, ordfl |-> "so", fl |-> "alm", ordmynd |-> <<"h", "j", "á", "l", "p", "a", "ð", "u", "r">>, beyging |-> <<"L", "H", "Þ", "T", "-", "S", "B", "-", "K", "K", "-", "N", "F", "E", "T">>],
    hjalpadi_LHTT_VB |-> [stofn |-> <<"h", "j", "á", "l", "p", "a">>, ordfl |-> "so", fl |-> "alm", ordmynd |-> <<"h", "j", "á", "l", "p", "a", "ð", "i">>, beyging |-> <<"L", "H", "Þ", "T", "-", "V", "B", "-", "K", "K", "-", "N", "F", "E", "T">>],
    hjalpandi_LHNT |-> [stofn |-> <<"h", "j", "á", "l", "p", "a">>, ordfl |-> "so", fl |-> "alm", ordmynd |-> <<"h", "j", "á", "l", "p", "a", "n", "d", "i">>, beyging |-> <<"L", "H", "-", "N", "T">>],
    hjalpa_NH |-> [stofn |-> <<"h", "j", "á", "l", "p", "a">>, ordfl |-> "so", fl |-> "alm", ordmynd |-> <<"h", "j", "á", "l", "p", "a">>, beyging |-> <<"G", "M", "-", "N", "H">>],
    langar_OP |-> [stofn |-> <<"l", "a", "n", "g", "a">>, ordfl |-> "so", fl |-> "alm", ordmynd |-> <<"l", "a", "n", "g", "a", "r">>, beyging |-> <<"O", "P", "-", "G", "M", "-", "F", "H", "-", "N", "T", "-", "3", "P", "-", "E", "T">>],
    dreymir_OP |-> [stofn |-> <<"d", "r", "e", "y", "m", "a">>, ordfl |-> "so", fl |-> "alm", ordmynd |-> <<"d", "r", "e", "y", "m", "i", "r">>, beyging |-> <<"O", "P", "-", "G", "M", "-", "F", "H", "-", "N", "T", "-", "3", "P", "-", "E", "T">>],
    thykir_so |-> [stofn |-> <<"þ", "y", "k", "j", "a">>, ordfl |-> "so", fl |-> "alm", ordmynd |-> <<"þ", "y", "k", "i", "r">>, beyging |-> <<"G", "M", "-", "F", "H", "-", "N", "T", "-", "3", "P", "-", "E", "T">>],
    rignir_so |-> [stofn |-> <<"r", "i", "g", "n", "a">>, ordfl |-> "so", fl |-> "alm", ordmynd |-> <<"r", "i", "g", "n", "i", "r">>, beyging |-> <<"G", "M", "-", "F", "H", "-", "N", "T", "-", "3", "P", "-", "E", "T">>],
    ath_abbrev |-> [stofn |-> <<"a", "t", "h", "u", "g", "a">>, ordfl |-> "so", fl |-> "alm", ordmynd |-> <<"a", "t", "h", ".">>, beyging |-> <<"-">>],
    eignadist_MM |-> [stofn |-> <<"e", "i", "g", "n", "a">>, ordfl |-> "so", fl |-> "alm", ordmynd |-> <<"e", "i", "g", "n", "a", "ð", "i", "s", "t">>, beyging |-> <<"M", "M", "-", "F", "H", "-", "Þ", "T", "-", "3", "P", "-", "E", "T">>],
    sefur_so |-> [stofn |-> <<"s", "o", "f", "a">>, ordfl |-> "so", fl |-> "alm", ordmynd |-> <<"s", "e", "f", "u", "r">>, beyging |-> <<"G", "M", "-", "F", "H", "-", "N", "T", "-", "3", "P", "-", "E", "T">>],
    gefur_so |-> [stofn |-> <<"g", "e", "f", "a">>, ordfl |-> "so", fl |-> "alm", ordmynd |-> <<"g", "e", "f", "u", "r">>, beyging |-> <<"G", "M", "-", "F", "H", "-", "N", "T", "-", "3", "P", "-", "E", "T">>],
    endurgefur_so |-> [stofn |-> <<"e", "n", "d", "u", "r", "-", "g", "e", "f", "a">>, ordfl |-> "so", fl |-> "alm", ordmynd |-> <<"e", "n", "d", "u", "r", "g", "e", "f", "u", "r">>, beyging |-> <<"G", "M", "-", "F", "H", "-", "N", "T", "-", "3", "P", "-", "E", "T">>],
    breytir_so |-> [stofn |-> <<"b", "r", "e", "y", "t", "a">>, ordfl |-> "so", fl |-> "alm", ordmynd |-> <<"b", "r", "e", "y", "t", "i", "r">>, beyging |-> <<"G", "M", "-", "F", "H", "-", "N", "T", "-", "3", "P", "-", "E", "T">>],
    bonar_so |-> [stofn |-> <<"b", "ó", "n", "a">>, ordfl |-> "so", fl |-> "alm", ordmynd |-> <<"b", "ó", "n", "a", "r">>, beyging |-> <<"G", "M", "-", "F", "H", "-", "N", "T", "-", "3", "P", "-", "E", "T">>] ]

\* The word tokens drawn: the text and the readings the lexicon gave it
WordTokens == {
    << <<"h", "ú", "s">>, << R.hus_NFET >> >>,
    << <<"h", "ú", "s">>, << R.hus_TFET >> >>,
    << <<"h", "ú", "s">>, << R.hus_NFFT >> >>,
    << <<"h", "ú", "s">>, << R.hus_NFET, R.hus_TFET >> >>,
    << <<"H", "ú", "s">>, << R.hus_NFET >> >>,
    << <<"h", "ú", "s", "i", "ð">>, << R.husid_NFETgr >> >>,
    << <<"h", "e", "s", "t", "u", "r">>, << R.hestur_NFET >> >>,
    << <<"l", "æ", "k", "n", "i", "r">>, << R.laeknir_NFET >> >>,
    << <<"h", "r", ".">>, << R.hr_abbrev >> >>,
    << <<"J", "ó", "n">>, << R.Jon_NFET >> >>,
    << <<"Ö", "n", "n", "u">>, << R.Anna_TFET >> >>,
    << <<"L", "a", "u", "g", "a", "v", "e", "g", "u", "r">>, << R.Laugavegur_NFET >> >>,
    << <<"g", "ó", "ð", "u", "r">>, << R.godur_NFET >> >>,
    << <<"b", "e", "s", "t", "u", "r">>, << R.bestur_NFET >> >>,
    << <<"s", "a", "m", "þ", "y", "k", "k", "u", "r">>, << R.samthykkur_NFET >> >>,
    << <<"h", "æ", "s", "t", "v", ".">>, << R.haestv_abbrev >> >>,
    << <<"v", "e", "l">>, << R.vel_ao >> >>,
    << <<"b", "e", "t", "u", "r">>, << R.betur_MST >> >>,
    << <<"t", "i", "l">>, << R.til_ao >> >>,
    << <<"t", "i", "l">>, << R.til_fs >> >>,
    << <<"t", "i", "l">>, << R.til_ao, R.til_fs >> >>,
    << <<"s", "k", "v", ".">>, << R.skv_fs >> >>,
    << <<"h", "a", "n", "n">>, << R.hann_pfn >> >>,
    << <<"H", "a", "n", "n">>, << R.hann_pfn >> >>,
    << <<"é", "g">>, << R.eg_pfn >> >>,
    << <<"s", "i", "g">>, << R.sig_abfn >> >>,
    << <<"s", "á">>, << R.sa_fn >> >>,
    << <<"s", "á">>, << R.vel_ao, R.sa_fn >> >>,
    << <<"þ", "e", "s", "s", "i">>, << R.thessi_fn >> >>,
    << <<"s", "e", "m">>, << R.sem_st >> >>,
    << <<"o", "g">>, << R.og_st >> >>,
    << <<"f", "i", "m", "m">>, << R.fimm_tol >> >>,
    << <<"e", "h", "f", ".">>, << R.ehf_hk >> >>,
    << <<"F", "o", "o">>, <<  >> >>,
    << <<"f", "o", "o">>, <<  >> >>,
    << <<"N", "e", "w", " ", "Y", "o", "r", "k">>, <<  >> >>,
    << <<"e", " ", "m", "a", "i", "l">>, <<  >> >>,
    << <<"Í", "s", "l", "a", "n", "d">>, <<  >> >>,
    << <<"s", "a", "k", "n", "a", "r">>, << R.saknar_so >> >>,
    << <<"h", "j", "á", "l", "p", "a", "r">>, << R.hjalpar_so >> >>,
    << <<"h", "j", "á", "l", "p", "a">>, << R.hjalpa_FT >> >>,
    << <<"h", "j", "á", "l", "p", "a", "ð">>, << R.hjalpad_SAGNB >> >>,
    << <<"h", "j", "á", "l", "p", "a", "ð", "u">>, << R.hjalpadu_BH >> >>,
    << <<"h", "j", "á", "l", "p", "a">>, << R.hjalpa_BHST >> >>,
    << <<"h", "j", "á", "l", "p", "a", "ð", "u", "r">>, << R.hjalpadur_LHTT >> >>,
    << <<"h", "j", "á", "l", "p", "a", "ð", "i">>, << R.hjalpadi_LHTT_VB >> >>,
    << <<"h", "j", "á", "l", "p", "a", "n", "d", "i">>, << R.hjalpandi_LHNT >> >>,
    << <<"h", "j", "á", "l", "p", "a">>, << R.hjalpa_NH >> >>,
    << <<"l", "a", "n", "g", "a", "r">>, << R.langar_OP >> >>,
    << <<"d", "r", "e", "y", "m", "i", "r">>, << R.dreymir_OP >> >>,
    << <<"þ", "y", "k", "i", "r">>, << R.thykir_so >> >>,
    << <<"r", "i", "g", "n", "i", "r">>, << R.rignir_so >> >>,
    << <<"a", "t", "h", ".">>, << R.ath_abbrev >> >>,
    << <<"e", "i", "g", "n", "a", "ð", "i", "s", "t">>, << R.eignadist_MM >> >>,
    << <<"s", "e", "f", "u", "r">>, << R.sefur_so >> >>,
    << <<"g", "e", "f", "u", "r">>, << R.gefur_so >> >>,
    << <<"e", "n", "d", "u", "r", "g", "e", "f", "u", "r">>, << R.endurgefur_so >> >>,
    << <<"b", "r", "e", "y", "t", "i", "r">>, << R.breytir_so >> >>,
    << <<"b", "ó", "n", "a", "r">>, << R.bonar_so >> >>,
    << <<"h", "j", "á", "l", "p", "a", "r">>, << R.hus_NFET, R.hjalpar_so >> >> }
\* The terminal names drawn, each by its parts
TerminalNames == {
    << "sérnafn" >>,
    << "sérnafn", "nf" >>,
    << "sérnafn", "þf" >>,
    << "no" >>,
    << "no", "et", "hk", "nf" >>,
    << "no", "hk", "et" >>,
    << "no", "et", "hk", "þf" >>,
    << "no", "et", "hk", "nf", "gr" >>,
    << "no", "ft", "hk", "nf" >>,
    << "no", "et", "kk", "nf" >>,
    << "no", "et", "kvk", "þf" >>,
    << "no", "abbrev" >>,
    << "no", "xir", "kk", "nf", "et" >>,
    << "no", "zið", "hk" >>,
    << "lo" >>,
    << "lo", "nf", "et", "kk" >>,
    << "lo", "esb", "nf", "et", "kk" >>,
    << "lo", "sb", "nf", "et", "kk" >>,
    << "lo", "sþgf", "nf", "et", "kk" >>,
    << "lo", "nf", "ft", "hk" >>,
    << "ao" >>,
    << "ao", "mst" >>,
    << "eo" >>,
    << "fs" >>,
    << "fs", "ef" >>,
    << "fs", "þf" >>,
    << "fs", "nh" >>,
    << "pfn", "kk", "et", "nf" >>,
    << "pfn", "ft", "nf" >>,
    << "abfn", "þf" >>,
    << "abfn", "kk", "þgf" >>,
    << "fn" >>,
    << "fn", "et", "nf", "kk" >>,
    << "fn", "et", "nf", "kvk" >>,
    << "fn", "abbrev" >>,
    << "st" >>,
    << "stt" >>,
    << "töl" >>,
    << "töl", "ft", "nf", "kk" >>,
    << "person", "nf", "kk" >>,
    << "person", "þf", "kvk" >>,
    << "person", "hk", "nf" >>,
    << "gata", "nf" >>,
    << "gata", "kvk", "nf" >>,
    << "fyrirtæki" >>,
    << "so" >>,
    << "so", "0" >>,
    << "so", "0", "et", "p3" >>,
    << "so", "1", "þgf" >>,
    << "so", "1", "þgf", "et", "p3" >>,
    << "so", "1", "ef" >>,
    << "so", "1", "þf" >>,
    << "so", "1", "þf", "ft" >>,
    << "so", "2", "þgf", "þf" >>,
    << "so", "2", "þf", "þgf" >>,
    << "so", "sagnb" >>,
    << "so", "1", "þgf", "sagnb" >>,
    << "so", "bh" >>,
    << "so", "1", "þgf", "bh", "et" >>,
    << "so", "lhþt" >>,
    << "so", "lhþt", "sb", "nf", "et", "kk" >>,
    << "so", "lhþt", "vb" >>,
    << "so", "1", "þgf", "op" >>,
    << "so", "op" >>,
    << "so", "lh", "nt" >>,
    << "so", "nh" >>,
    << "so", "1", "þgf", "nh" >>,
    << "so", "subj", "op", "þf" >>,
    << "so", "1", "þf", "subj", "op", "þf" >>,
    << "so", "subj", "nh", "þf" >>,
    << "so", "subj", "mm" >>,
    << "so", "subj", "gm", "et", "þgf" >>,
    << "so", "subj", "lhþt", "þgf" >>,
    << "so", "subj", "none" >>,
    << "so", "subj", "sagnb", "þf" >>,
    << "so", "subj", "ft", "þf" >> }

NoTerminal == VariantHandler(<<"">>)
NoToken == [ t1 |-> <<>>, t1_lower |-> <<>>, t2 |-> <<>>, is_upper |-> FALSE, is_eo |-> "None" ]
NoMatchResult == [ ret |-> "none", index |-> 0 ]

MatcherInit ==
    /\ mt_terminal = NoTerminal
    /\ mt_token = NoToken
    /\ mt_result = NoMatchResult
    /\ mt_pc = "start"

MatcherIdle ==
    /\ mt_terminal = NoTerminal
    /\ mt_token = NoToken
    /\ mt_result = NoMatchResult
    /\ mt_pc = "idle"

\* BIN_Terminal(name)
mt_Terminal(parts) ==
    /\ mt_pc = "start"
    /\ mt_terminal' = VariantHandler(parts)
    /\ mt_pc' = "terminal"
    /\ UNCHANGED <<mt_token, mt_result>>
    /\ UNCHANGED exceptMatcher

\* BIN_Token(t) for a word token
mt_Token(t) ==
    /\ mt_pc = "terminal"
    /\ mt_token' = BIN_Token(t[1], t[2])
    /\ mt_pc' = "token"
    /\ UNCHANGED <<mt_terminal, mt_result>>
    /\ UNCHANGED exceptMatcher

\* token.match_with_meaning(terminal); a token is matched against the same
\* terminal again and again by the parser
mt_Match ==
    /\ mt_pc \in {"token", "matched"}
    /\ LET r == match_with_meaning(mt_token, mt_terminal)
       IN /\ mt_result' = [ ret |-> r.ret, index |-> r.index ]
          /\ mt_token' = r.tok
    /\ cf_tables' = Subscripted(cf_tables, match_subscripts(mt_token, mt_terminal))
    /\ mt_pc' = "matched"
    /\ UNCHANGED mt_terminal
    /\ UNCHANGED exceptMatcherTables

MatcherNext ==
    \/ \E parts \in TerminalNames : mt_Terminal(parts)
    \/ \E t \in WordTokens : mt_Token(t)
    \/ mt_Match

(***************************************************************************)
(* BIN_Db._lookup (bindb.py): the readings of a word form, with the upper- *)
(* and lower-case variants, the adjective endings, the compound words and  *)
(* the prefix 'ó'. The lookup function is BIN_Db.meanings behind the       *)
(* process-wide cache of reading lists, which keeps and returns the list   *)
(* object itself.                                                          *)
(***************************************************************************)

UpperChar(c) ==
    CASE c = "f" -> "F" [] c = "h" -> "H" [] c = "n" -> "N" [] c = "y" -> "Y"
      [] c = "j" -> "J" [] c = "l" -> "L" [] c = "ö" -> "Ö" [] c = "í" -> "Í"
      [] c = "ó" -> "Ó"
      [] OTHER -> c
upper(s) == [i \in 1 .. Len(s) |-> UpperChar(s[i])]
\* str.capitalize: the first character in upper case, the rest in lower case
capitalize(s) == IF s = <<>> THEN s ELSE << UpperChar(s[1]) >> \o lower(Tail(s))
\* str.islower: a cased character, and none in upper case
islower(s) == (\E i \in DOMAIN s : s[i] \notin {".", "-", " "}) /\ lower(s) = s

\* A row of BÍN; utg is <<n>>, or <<>> for None
BIN_Meaning(stofn, utg, ordfl, fl, ordmynd, beyging) ==
    [ stofn |-> stofn, utg |-> utg, ordfl |-> ordfl, fl |-> fl, ordmynd |-> ordmynd,
      beyging |-> beyging ]
\* BIN_Db._meanings(w): the rows of the word form in the order of the file
BinRows(w) ==
    CASE w = <<"h", "ö", "f", "n">> ->
           << BIN_Meaning(<<"h", "ö", "f", "n">>, <<1>>, "kvk", "alm", <<"h", "ö", "f", "n">>, <<"N", "F", "E", "T">>) >>
      [] w = <<"H", "ö", "f", "n">> ->
           << BIN_Meaning(<<"H", "ö", "f", "n">>, <<2>>, "kvk", "örn", <<"H", "ö", "f", "n">>, <<"N", "F", "E", "T">>) >>
      [] w = <<"J", "ó", "n">> ->
           << BIN_Meaning(<<"J", "ó", "n">>, <<3>>, "kk", "ism", <<"J", "ó", "n">>, <<"N", "F", "E", "T">>) >>
      [] w = <<"f", "í", "n", "n">> ->
           << BIN_Meaning(<<"f", "í", "n", "n">>, <<4>>, "lo", "alm", <<"f", "í", "n", "n">>, <<"F", "S", "B", "-", "K", "K", "-", "N", "F", "E", "T">>) >>
      [] w = <<"l", "j", "ó", "s">> ->
           << BIN_Meaning(<<"l", "j", "ó", "s">>, <<5>>, "lo", "alm", <<"l", "j", "ó", "s">>, <<"F", "S", "B", "-", "K", "V", "K", "-", "N", "F", "E", "T">>),
              BIN_Meaning(<<"l", "j", "ó", "s">>, <<6>>, "hk", "alm", <<"l", "j", "ó", "s">>, <<"N", "F", "E", "T">>),
              BIN_Meaning(<<"l", "j", "ó", "s">>, <<7>>, "ao", "ob", <<"l", "j", "ó", "s">>, <<"-">>) >>
      [] w = <<"h", "l", "ý", "j", "a">> ->
           << BIN_Meaning(<<"h", "l", "ý", "j", "a">>, <<8>>, "so", "alm", <<"h", "l", "ý", "j", "a">>, <<"G", "M", "-", "V", "H", "-", "N", "T", "-", "3", "P", "-", "F", "T">>),
              BIN_Meaning(<<"h", "l", "ý", "j", "a">>, <<8>>, "so", "alm", <<"h", "l", "ý", "j", "a">>, <<"G", "M", "-", "N", "H">>),
              BIN_Meaning(<<"h", "l", "ý", "j", "a">>, <<9>>, "kvk", "alm", <<"h", "l", "ý", "j", "a">>, <<"N", "F", "E", "T">>) >>
      [] OTHER -> <<>>

\* BIN_Db._priority
priority(m) ==
    IF m.ordfl # "so" THEN (IF m.utg = <<>> THEN 1 ELSE 0)
    ELSE (IF Contains(m.beyging, <<"V", "H">>) THEN 4 ELSE 0)
         + (IF Contains(m.beyging, <<"Þ", "T">>) THEN 2 ELSE 0)
         + (IF Contains(m.beyging, <<"F", "T">>) THEN 1 ELSE 0)
         + (IF Contains(m.beyging, <<"2", "P">>) THEN 1 ELSE 0)
RECURSIVE SortByPriority(_)
\* m.sort(key=self._priority): a stable sort
SortByPriority(s) ==
    IF s = <<>> THEN <<>>
    ELSE LET rest == SortByPriority(SubSeq(s, 1, Len(s) - 1))
             x == s[Len(s)]
             k == Cardinality({ i \in DOMAIN rest : priority(rest[i]) <= priority(x) })
         IN SubSeq(rest, 1, k) \o << x >> \o SubSeq(rest, k + 1, Len(rest))
\* BIN_Db.meanings(w): a new list on every call; no stem preferences here
meanings(w) == SortByPriority(BinRows(w))

\* A list object: the list cached under a key, or a list made in this call
CachedList(key) == [ alias |-> << key >>, val |-> <<>> ]
FreshList(val) == [ alias |-> <<>>, val |-> val ]
ValueOf(cache, l) == IF l.alias # <<>> THEN cache[l.alias[1]] ELSE l.val
\* lookup(key), which is self._meanings_cache.lookup(key, self.meanings): the
\* list kept under the key, made by meanings(key) the first time; the
\* cache is large enough to keep every key
cache_lookup(cache, key) ==
    [ cache |-> IF key \in DOMAIN cache THEN cache ELSE (key :> meanings(key)) @@ cache,
      m |-> CachedList(key) ]
\* a.extend(b): the list a itself, made longer (a mutant)
list_extend(cache, a, b) ==
    IF a.alias # <<>>
    THEN [ cache |-> [ cache EXCEPT ![a.alias[1]] = @ \o ValueOf(cache, b) ], m |-> a ]
    ELSE [ cache |-> cache, m |-> FreshList(a.val \o ValueOf(cache, b)) ]
\* a + b: a new list
list_add(cache, a, b) ==
    [ cache |-> cache, m |-> FreshList(ValueOf(cache, a) \o ValueOf(cache, b)) ]

NOUNS == {"kk", "kvk", "hk"}
OPEN_CATS == {"so", "kk", "hk", "kvk", "lo"}
ADJECTIVE_TEST == <<"l", "e", "g">>
IsNoun(mm) == mm.ordfl \in NOUNS
IsOpenCat(mm) == mm.ordfl \in OPEN_CATS
IsAdjective(mm) == mm.ordfl = "lo"
\* BIN_Db.open_cats
open_cats(mlist) == SelectSeq(mlist, IsOpenCat)
\* BIN_Db.prefix_meanings: the list itself when the prefix is empty
prefix_meanings(cache, l, prefix) ==
    IF prefix # <<>>
    THEN FreshList([ i \in DOMAIN ValueOf(cache, l) |->
            LET r == ValueOf(cache, l)[i]
            IN BIN_Meaning(prefix \o <<"-">> \o r.stofn, r.utg, r.ordfl, r.fl,
                           prefix \o <<"-">> \o r.ordmynd, r.beyging) ])
    ELSE l
RECURSIVE JoinDash(_)
\* "-".join(parts)
JoinDash(parts) ==
    IF parts = <<>> THEN <<>>
    ELSE IF Len(parts) = 1 THEN parts[1]
    ELSE parts[1] \o <<"-">> \o JoinDash(Tail(parts))

\* AdjectiveTemplate.ENDINGS, a sample: (ending, form)
ADJECTIVE_ENDINGS ==
    << << <<"l", "e", "g", "u", "r">>, <<"F", "S", "B", "-", "K", "K", "-", "N", "F", "E", "T">> >>,
       << <<"l", "e", "g">>, <<"F", "S", "B", "-", "K", "V", "K", "-", "N", "F", "E", "T">> >> >>
\* The readings made for a word with 'leg' in it that was not found
adjective_meanings(lower_w) ==
    LET fits(k) == /\ EndsWith(lower_w, ADJECTIVE_ENDINGS[k][1])
                   /\ Len(lower_w) > Len(ADJECTIVE_ENDINGS[k][1])
        made(k) == BIN_Meaning(SubSeq(lower_w, 1, Len(lower_w) - Len(ADJECTIVE_ENDINGS[k][1]))
                                  \o <<"l", "e", "g", "u", "r">>,
                               <<0>>, "lo", "alm", lower_w, ADJECTIVE_ENDINGS[k][2])
        RECURSIVE endings(_)
        endings(k) == IF k > Len(ADJECTIVE_ENDINGS) THEN <<>>
                      ELSE (IF fits(k) THEN << made(k) >> ELSE <<>>) \o endings(k + 1)
    IN endings(1) \o
       (IF EndsWith(lower_w, <<"l", "e", "g", "a">>) /\ Len(lower_w) > 4
        THEN << BIN_Meaning(lower_w, <<0>>, "ao", "ob", lower_w, <<"-">>) >> ELSE <<>>)

\* Wordbase.slice_compound_word for the words used here (<<>> for None)
CompoundParts(w) ==
    IF w = <<"h", "a", "f", "n", "a", "r", "l", "j", "ó", "s">> THEN << <<"h", "a", "f", "n", "a", "r">>, <<"l", "j", "ó", "s">> >> ELSE <<>>

\* BIN_Db._lookup, 'if auto_uppercase and not m and w.islower()': o is the
\* list and the cache at the end of the call
unfound_return(w, auto_uppercase, o) ==
    [ w |-> IF auto_uppercase /\ ValueOf(o.cache, o.m) = <<>> /\ islower(w)
            THEN capitalize(w) ELSE w,
      m |-> o.m, cache |-> o.cache ]
\* BIN_Db._lookup, 'if lower_w.startswith('ó')' with ro the result of
\* lookup(lower_w[1:]): the adjectives of the rest with 'ó' in front, or m
negated_meanings(m, ro) ==
    LET om == ValueOf(ro.cache, ro.m)
        lo == SelectSeq(om, IsAdjective)
    IN IF om # <<>>
       THEN [ cache |-> ro.cache,
              m |-> FreshList([ i \in DOMAIN lo |->
                      BIN_Meaning(<<"ó">> \o lo[i].stofn, lo[i].utg, lo[i].ordfl,
                                  lo[i].fl, <<"ó">> \o lo[i].ordmynd, lo[i].beyging) ]) ]
       ELSE [ cache |-> ro.cache, m |-> m ]
\* BIN_Db._lookup, 'if not m and lower_w.startswith('ó')': comp is the list
\* and the cache after the compound branch
unfound_negated(w, lower_w, auto_uppercase, comp) ==
    unfound_return(w, auto_uppercase,
        IF /\ ValueOf(comp.cache, comp.m) = <<>>
           /\ Len(lower_w) > 1 /\ lower_w[1] = "ó"
        THEN negated_meanings(comp.m, cache_lookup(comp.cache, Tail(lower_w)))
        ELSE comp)
\* BIN_Db._lookup, 'if cw:' with rc the result of lookup(cw[-1]): the nouns
\* only for a capitalized word inside a sentence, the open categories of
\* those, and the prefix put in front
compound_meanings(w, lower_w, at_sentence_start, cw, rc) ==
    LET nouns == IF lower_w # w /\ ~at_sentence_start
                 THEN FreshList(SelectSeq(ValueOf(rc.cache, rc.m), IsNoun))
                 ELSE rc.m
    IN [ cache |-> rc.cache,
         m |-> prefix_meanings(rc.cache, FreshList(open_cats(ValueOf(rc.cache, nouns))),
                               JoinDash(SubSeq(cw, 1, Len(cw) - 1))) ]
\* BIN_Db._lookup, 'if not m:' before the compound branch: adj is the list
\* after the adjective branch and cw the parts of the compound (<<>>: none)
unfound_compound(w, lower_w, at_sentence_start, auto_uppercase, cache, adj, cw) ==
    unfound_negated(w, lower_w, auto_uppercase,
        IF ValueOf(cache, adj) = <<>> /\ cw # <<>>
        THEN compound_meanings(w, lower_w, at_sentence_start, cw,
                               cache_lookup(cache, cw[Len(cw)]))
        ELSE [ cache |-> cache, m |-> adj ])
\* BIN_Db._lookup from 'if not m and _ADJECTIVE_TEST in lower_w' on: m is
\* empty here
lookup_unfound(w, lower_w, at_sentence_start, auto_uppercase, cache, m) ==
    unfound_compound(w, lower_w, at_sentence_start, auto_uppercase, cache,
        IF Contains(lower_w, ADJECTIVE_TEST) THEN FreshList(adjective_meanings(lower_w))
        ELSE m,
        IF CompoundParts(w) = <<>> /\ lower_w # w THEN CompoundParts(lower_w)
        ELSE CompoundParts(w))

\* BIN_Db._lookup, 'if m:' at the end of the lower-case part: up is the
\* word, the list, the cache and at_sentence_start after the upper-case part,
\* low the list and the cache after the lower-case part
lookup_found(auto_uppercase, up, lower_w, low) ==
    IF ValueOf(low.cache, low.m) # <<>>
    THEN [ w |-> up.w, m |-> low.m, cache |-> low.cache ]
    ELSE lookup_unfound(up.w, lower_w, up.ass, auto_uppercase, low.cache, low.m)
\* BIN_Db._lookup, 'm = lookup(lower_w)' or 'm = lookup(lower_w) + m', with
\* rl the result of lookup(lower_w)
lower_meanings(up, rl) ==
    IF ValueOf(rl.cache, up.m) = <<>> THEN rl
    ELSE list_add(rl.cache, rl.m, up.m)
\* BIN_Db._lookup, 'if at_sentence_start or not m:'
lookup_lower(w0, auto_uppercase, up, try_lower, lower_w) ==
    lookup_found(auto_uppercase, up, lower_w,
        IF try_lower /\ lower_w # up.w
        THEN lower_meanings(up, cache_lookup(up.cache, lower_w))
        ELSE [ cache |-> up.cache, m |-> up.m ])
\* lower_w is w.lower() where the lower-case part is entered, else w
lookup_after_upper(w0, auto_uppercase, up) ==
    lookup_lower(w0, auto_uppercase, up, up.ass \/ ValueOf(up.cache, up.m) = <<>>,
                 IF up.ass \/ ValueOf(up.cache, up.m) = <<>> THEN lower(up.w) ELSE w0)
\* BIN_Db._lookup, 'm_upper = lookup(w.capitalize())' with ru its result and
\* r0 the result of lookup(w)
upper_meanings(w0, at_sentence_start, r0, ru) ==
    IF ValueOf(ru.cache, ru.m) # <<>>
    THEN IF ValueOf(ru.cache, r0.m) # <<>>
         THEN [ w |-> capitalize(w0), m |-> list_add(ru.cache, ru.m, r0.m).m,
                cache |-> list_add(ru.cache, ru.m, r0.m).cache, ass |-> FALSE ]
         ELSE [ w |-> capitalize(w0), m |-> ru.m, cache |-> ru.cache, ass |-> FALSE ]
    ELSE [ w |-> w0, m |-> r0.m, cache |-> ru.cache, ass |-> at_sentence_start ]
\* BIN_Db._lookup, 'if auto_uppercase and w.islower():' with r0 the result of
\* lookup(w)
lookup_upper(w0, at_sentence_start, auto_uppercase, r0) ==
    lookup_after_upper(w0, auto_uppercase,
        IF auto_uppercase /\ islower(w0)
        THEN IF Len(w0) = 1 /\ ValueOf(r0.cache, r0.m) = <<>>
             THEN [ w |-> upper(w0) \o <<".">>, m |-> r0.m, cache |-> r0.cache,
                    ass |-> at_sentence_start ]
             ELSE upper_meanings(w0, at_sentence_start, r0,
                                 cache_lookup(r0.cache, capitalize(w0)))
        ELSE [ w |-> w0, m |-> r0.m, cache |-> r0.cache, ass |-> at_sentence_start ])
\* BIN_Db._lookup(w, at_sentence_start, auto_uppercase, lookup): the word and
\* the list returned, and the cache afterwards
BIN_Db_lookup(w0, at_sentence_start, auto_uppercase, cache0) ==
    lookup_upper(w0, at_sentence_start, auto_uppercase, cache_lookup(cache0, w0))

\* Most lookup_word calls made in one run
MaxLookups == 3
\* The words looked up
LookupWords == { <<"h", "ö", "f", "n">>, <<"H", "ö", "f", "n">>, <<"j", "ó", "n">>, <<"J", "ó", "n">>, <<"f">>, <<"h", "a", "f", "n", "a", "r", "l", "j", "ó", "s">>, <<"H", "a", "f", "n", "a", "r", "l", "j", "ó", "s">>, <<"ó", "f", "í", "n", "n">>, <<"f", "í", "n", "l", "e", "g", "u", "r">>, <<"l", "j", "ó", "s">>, <<"h", "l", "ý", "j", "a">>, <<"n", "j", "ó", "l", "a">> }

NoLookup == [ arg |-> <<>>, w |-> <<>>, m |-> <<>>, cached |-> <<>> ]
LookupInit ==
    /\ lk_cache = <<>>
    /\ lk_ret = NoLookup
    /\ lk_calls = 0

\* BIN_Db.lookup_word(w, at_sentence_start, auto_uppercase)
lk_LookupWord(w, at_sentence_start, auto_uppercase) ==
    /\ lk_calls < MaxLookups
    /\ lk_calls' = lk_calls + 1
    /\ LET r == BIN_Db_lookup(w, at_sentence_start, auto_uppercase, lk_cache)
       IN /\ lk_cache' = r.cache
          /\ lk_ret' = [ arg |-> << w, at_sentence_start, auto_uppercase >>, w |-> r.w,
                         m |-> ValueOf(r.cache, r.m), cached |-> r.m.alias ]
    /\ UNCHANGED exceptLookup

LookupNext ==
    \E w \in LookupWords : \E at_sentence_start, auto_uppercase \in BOOLEAN :
        lk_LookupWord(w, at_sentence_start, auto_uppercase)

(* ---- number tokens ---- *)

\* The number of a token is kept in hundredths: 1,5 is 150
NumberScale == 100
\* int(x): the whole part, rounded towards zero
IntOf(v) == IF v >= 0 THEN v \div NumberScale ELSE 0 - ((0 - v) \div NumberScale)
\* float(int(x)) == float(x)
IsWhole(v) == v % NumberScale = 0
Abs(i) == IF i >= 0 THEN i ELSE 0 - i
\* BIN_Token._SINGULAR_SPECIAL_CASES
SINGULAR_SPECIAL_CASES == { 365 }
\* The vulgar fraction characters; those outside Latin-1 are written n/d
FractionChars == { "¼", "½", "¾", "1/7", "1/9", "1/10", "1/3", "2/3", "1/5", "2/5", "3/5", "4/5", "1/6", "5/6", "1/8", "3/8", "5/8", "7/8" }
UnitFractionChars == { "¼", "½", "1/7", "1/9", "1/10", "1/3", "1/5", "1/6", "1/8" }

\* The test on the last digit alone (11 taken as singular)
SingularIntLastDigit(orig_i) == Abs(orig_i) % 10 = 1
\* i = abs(i) % 100; singular = (i != 11) and (i % 10) == 1
SingularInt(orig_i) ==
    LET i == Abs(orig_i) % 100
    IN i # 11 /\ i % 10 = 1

\* BIN_Token.__init__ for a number token: t0 is TOK.NUMBER, t2 is
\* (number, cases, genders), where an empty set stands for None
BIN_NumberToken(text, val, cases, genders) ==
    [ kind |-> "NUMBER", t1 |-> text, t1_lower |-> lower(text),
      t2 |-> << val, cases, genders >>,
      is_upper |-> text[1] # lower(text)[1], is_eo |-> "None" ]

\* BIN_Token.is_correct_singular_or_plural
is_correct_singular_or_plural(tok, terminal) ==
    LET orig_i == IntOf(tok.t2[1])
        last == tok.t1[Len(tok.t1)]
        singular == IF IsWhole(tok.t2[1]) THEN SingularInt(orig_i)
                    ELSE IF last \in FractionChars
                    THEN SingularInt(orig_i) \/ last \in UnitFractionChars
                    ELSE FALSE
    IN IF is_singular(terminal) /\ ~singular THEN orig_i \in SINGULAR_SPECIAL_CASES
       ELSE IF is_plural(terminal) /\ singular THEN FALSE
       ELSE TRUE

\* BIN_Token.matches_NUMBER
matches_NUMBER(tok, terminal) ==
    IF terminal.first = "tala" THEN is_correct_singular_or_plural(tok, terminal)
    ELSE IF terminal.first \notin {"töl", "to"} THEN FALSE
    ELSE IF tok.t2[2] = {} /\ tok.t2[3] = {} THEN FALSE
    ELSE IF ~is_correct_singular_or_plural(tok, terminal) THEN FALSE
    ELSE IF terminal.first = "to" /\ (tok.t2[2] = {} \/ tok.t2[3] = {}) THEN FALSE
    ELSE IF terminal.first = "to"
            /\ \E g \in GENDERS_SET : has_variant(terminal, g) /\ g \notin tok.t2[3] THEN FALSE
    ELSE IF tok.t2[2] # {}
            /\ \E i \in 1 .. Len(CASES) : has_variant(terminal, CASES[i]) /\ CASES[i] \notin tok.t2[2]
         THEN FALSE
    ELSE TRUE

\* The number terminals of the grammar used here, and a noun terminal
NumberTerminalNames ==
    { << "tala" >>,
      << "tala", "et" >>,
      << "tala", "ft" >>,
      << "tala", "et", "ft" >>,
      << "tala", "et", "nf", "kk" >>,
      << "tala", "ft", "þgf", "hk" >>,
      << "töl" >>,
      << "töl", "et" >>,
      << "töl", "ft", "þf" >>,
      << "töl", "ft", "ef", "kvk" >>,
      << "to" >>,
      << "to", "et", "nf", "kk" >>,
      << "to", "ft", "þf", "hk" >>,
      << "to", "ft", "þgf" >>,
      << "no", "et", "nf", "kk" >> }
\* Number tokens: the text and the number
NumberTexts ==
    { << <<"0">>, 0 >>,
      << <<"1">>, 100 >>,
      << <<"2">>, 200 >>,
      << <<"1", "1">>, 1100 >>,
      << <<"1", "2">>, 1200 >>,
      << <<"2", "1">>, 2100 >>,
      << <<"1", "0", "1">>, 10100 >>,
      << <<"1", "1", "1">>, 11100 >>,
      << <<"1", "2", "1">>, 12100 >>,
      << <<"2", "1", "1">>, 21100 >>,
      << <<"3", "6", "5">>, 36500 >>,
      << <<"1", "3", "6", "5">>, 136500 >>,
      << <<"-", "1">>, -100 >>,
      << <<"-", "1", "1">>, -1100 >>,
      << <<"-", "2", "1">>, -2100 >>,
      << <<"-", "3", "6", "5">>, -36500 >>,
      << <<"1", ",", "5">>, 150 >>,
      << <<"2", "1", ",", "5">>, 2150 >>,
      << <<"1", "½">>, 150 >>,
      << <<"2", "¾">>, 275 >>,
      << <<"1", "1", "½">>, 1150 >>,
      << <<"2", "2/3">>, 267 >>,
      << <<"2", "1", "¾">>, 2175 >> }
\* The cases and genders that the tokenizer attaches to a number
NumberInfo ==
    { << {}, {} >>, << {"nf"}, {"kk"} >>, << {"þf", "þgf"}, {} >>, << {}, {"hk"} >>,
      << {"nf", "þf", "þgf", "ef"}, {"kk", "kvk", "hk"} >> }

\* BIN_Token(t) for a number token
mt_NumberToken(nt, info) ==
    /\ mt_pc = "terminal"
    /\ mt_token' = BIN_NumberToken(nt[1], nt[2], info[1], info[2])
    /\ mt_pc' = "token"
    /\ UNCHANGED <<mt_terminal, mt_result>>
    /\ UNCHANGED exceptMatcher

\* token.matches(terminal) for a number token: a terminal that is not a
\* literal has no shortcut, and _MATCHING_FUNC gives matches_NUMBER
mt_MatchNumber ==
    /\ mt_pc \in {"token", "matched"}
    /\ mt_result' = [ ret |-> IF matches_NUMBER(mt_token, mt_terminal) THEN "True" ELSE "False",
                      index |-> 0 ]
    /\ mt_pc' = "matched"
    /\ UNCHANGED <<mt_terminal, mt_token>>
    /\ UNCHANGED exceptMatcher

NumberNext ==
    \/ \E parts \in NumberTerminalNames : mt_Terminal(parts)
    \/ \E nt \in NumberTexts : \E info \in NumberInfo : mt_NumberToken(nt, info)
    \/ mt_MatchNumber

(***************************************************************************)
(* The parse forest reducer (reducer.py). The forest nodes and the walk    *)
(* over them belong to the parser (fastparser.py) and the nonterminals'    *)
(* tags and scores to the grammar; both follow the forest contract.        *)
(***************************************************************************)

VERB_PREP_BONUS == 7
VERB_PREP_PENALTY == -2
LENGTH_BONUS_FACTOR == 10
PREP_SCOPE_SET == {"begin_prep_scope", "purge_prep", "no_prep"}
\* How many times go_with_score is run on the same input
MaxRuns == 3

(* ---- terminals, nonterminals and forest nodes ---- *)

\* BIN_Terminal(name): is_literal False, colon_cat None
BIN_Terminal(parts) ==
    VariantHandler(parts) @@ [ is_literal |-> FALSE, colon_cat |-> "None", match_cat |-> "None" ]
\* BIN_LiteralTerminal for a literal with a category, such as 'á:fs'_þgf:
\* _first is the text, _cat the category, and the case (gender) variants of
\* an fs or so (pfn) literal are cut from the feature mask
BIN_LiteralTerminal(first, cat, vparts) ==
    LET h == VariantHandler(<<first>> \o vparts)
    IN [ h EXCEPT !.fbits = IF cat = "pfn" THEN @ \ VBIT_GENDERS
                            ELSE IF cat \in {"fs", "so"} THEN @ \ VBIT_CASES ELSE @ ]
       @@ [ is_literal |-> TRUE, colon_cat |-> cat,
            match_cat |-> CASE cat = "stt" -> "st"
                            [] cat \in {"en", "em"} -> "punctuation"
                            [] OTHER -> cat ]
\* VariantHandler.matches_category, overridden in BIN_LiteralTerminal
matches_category(t, cat) == IF t.is_literal THEN t.match_cat = cat ELSE t.first = cat
\* BIN_Nonterminal: is_noun_phrase is name.startswith("Nl"); the tags, the
\* optional mark and the $score pragma (grammar._nt_scores) come from the grammar
BIN_Nonterminal(name, tags, optional, score) ==
    [ name |-> name, tags |-> tags,
      is_noun_phrase |-> Len(name) >= 2 /\ name[1] = "N" /\ name[2] = "l",
      is_optional |-> optional, score |-> score ]
\* A leaf of the forest: a token matched by a terminal at position start
TokenNode(terminal, token, start) ==
    [ is_token |-> TRUE, terminal |-> terminal, token |-> token,
      nonterminal |-> BIN_Nonterminal(<<>>, {}, FALSE, 0), is_completed |-> FALSE,
      start |-> start, end |-> start + 1, families |-> <<>> ]
\* A nonterminal node: completed or interior, spanning [start, end), with its
\* families of one or two children (0 is the empty child, None)
NonterminalNode(nt, completed, start, end, families) ==
    [ is_token |-> FALSE, terminal |-> BIN_Terminal(<<"">>), token |-> NoToken,
      nonterminal |-> nt, is_completed |-> completed,
      start |-> start, end |-> end, families |-> families ]
\* Node.is_empty: no family, or a single family that is empty
is_empty(node) ==
    \/ node.families = <<>>
    \/ Len(node.families) = 1 /\ \A c \in DOMAIN node.families[1] : node.families[1][c] = 0
\* Node.reduce_to(ix): only the family with index ix (from 0) stays
reduce_to(F, n, ix) == [ F EXCEPT ![n].families = << @[ix + 1] >> ]

(* ---- configuration tables (read from the .conf files), small samples ---- *)

\* Preferences.DICT: word -> list of (worse, better, factor)
Preferences(word) ==
    IF word = <<"h", "a", "f", "a">> THEN << [ worse |-> {"no"}, better |-> {"so"}, factor |-> 1 ] >>
    ELSE <<>>
\* NounPreferences.DICT: word form -> gender -> priority
NounPreferences ==
    { << <<"h", "a", "f", "a">>, "hk", -2 >>, << <<"h", "a", "f", "a">>, "kk", 2 >> }
\* VerbObjects: VERBS[0], SCORES and PREPOSITIONS. A key 'verb_case1_case2'
\* is the pair of the verb and the list of its cases, and a preposition key
\* 'á_þf' the pair of the preposition and the case ('á' alone: a one-tuple)
VerbObjects ==
    [ VERBS0 |-> { <<"h", "o", "r", "f", "a">> },
      SCORES |-> { << << <<"h", "o", "r", "f", "a">>, <<"þgf">> >>, -1 >>,
                   << << <<"b", "e", "r", "a">>, <<"þf">> >>, 2 >>,
                   << << <<"b", "e", "r", "j", "a">>, <<"þf">> >>, 5 >> },
      PREPOSITIONS |-> { << << <<"h", "o", "r", "f", "a">>, <<>> >>, { << <<"á">> >>, << <<"á">>, "þf" >> } >> } ]

(* ---- PrepositionUnpacker: unshare the subtrees below enable_prep_bonus ---- *)

\* No copy: the node itself
copy_node_shared(F, n) == [ F |-> F, id |-> n ]
RECURSIVE copy_node(_, _)
RECURSIVE transform_children(_, _, _, _)
\* copy_node(node): Node.copy and then transform_children(dup). The forest F
\* is the sequence of all nodes; a copy is appended to it. Returns the forest
\* and the id of the copy.
copy_node(F, n) ==
    IF n = 0 THEN [ F |-> F, id |-> 0 ]
    ELSE [ F |-> transform_children(Append(F, F[n]), Len(F) + 1, 1, 1), id |-> Len(F) + 1 ]
\* node.transform_children(dup), from child ci of family fi on
transform_children(F, id, fi, ci) ==
    IF fi > Len(F[id].families) THEN F
    ELSE IF ci > Len(F[id].families[fi]) THEN transform_children(F, id, fi + 1, 1)
    ELSE LET c == F[id].families[fi][ci]
             nt == F[c].nonterminal
             keep == \/ c = 0
                     \/ /\ F[c].is_completed
                        /\ \/ nt.tags \cap PREP_SCOPE_SET # {}
                           \/ nt.is_noun_phrase
                           \/ nt.is_optional /\ is_empty(F[c])
             r == IF keep THEN [ F |-> F, id |-> c ] ELSE copy_node(F, c)
         IN transform_children([ r.F EXCEPT ![id].families[fi][ci] = r.id ], id, fi, ci + 1)

RECURSIVE PrepositionUnpacker(_, _, _)
RECURSIVE UnpackChildren(_, _, _, _, _)
RECURSIVE UnpackProcess(_, _, _, _)
\* PrepositionUnpacker.navigate: the walk from node n with the nodes in
\* visited already seen; returns the forest and the nodes seen
PrepositionUnpacker(F, visited, n) ==
    IF n \in visited \/ n = 0 \/ F[n].is_token
    THEN [ F |-> F, visited |-> visited \cup {n} ]
    ELSE LET r == UnpackChildren(F, visited, n, 1, 1)
         IN [ F |-> UnpackProcess(r.F, n, 1, 1), visited |-> r.visited \cup {n} ]
\* the children of node n, family by family
UnpackChildren(F, visited, n, fi, ci) ==
    IF fi > Len(F[n].families) THEN [ F |-> F, visited |-> visited ]
    ELSE IF ci > Len(F[n].families[fi]) THEN UnpackChildren(F, visited, n, fi + 1, 1)
    ELSE LET r == PrepositionUnpacker(F, visited, F[n].families[fi][ci])
         IN UnpackChildren(r.F, r.visited, n, fi, ci + 1)
\* PrepositionUnpacker._process_results: a child that is a completed
\* nonterminal tagged enable_prep_bonus is replaced by a copy of its subtree
UnpackProcess(F, n, fi, ci) ==
    IF fi > Len(F[n].families) THEN F
    ELSE IF ci > Len(F[n].families[fi]) THEN UnpackProcess(F, n, fi + 1, 1)
    ELSE LET c == F[n].families[fi][ci]
         IN IF c # 0 /\ ~F[c].is_token /\ F[c].is_completed
               /\ "enable_prep_bonus" \in F[c].nonterminal.tags
            THEN LET r == copy_node(F, c)
                 IN UnpackProcess([ r.F EXCEPT ![n].families[fi][ci] = r.id ], n, fi, ci + 1)
            ELSE UnpackProcess(F, n, fi, ci + 1)

(* ---- Reducer._calc_terminal_scores ---- *)

RECURSIVE Reach(_, _, _)
\* The nodes a walk from the nodes in todo visits
Reach(F, todo, seen) ==
    IF todo = {} THEN seen
    ELSE LET n == CHOOSE x \in todo : TRUE
             kids == UNION { { F[n].families[f][c] : c \in DOMAIN F[n].families[f] } :
                               f \in DOMAIN F[n].families } \ {0}
         IN Reach(F, (todo \cup kids) \ (seen \cup {n}), seen \cup {n})
\* OptionFinder: finals[i] is the set of the terminals of the leaves at i
find_options(F, root) ==
    [ i \in F[root].start .. F[root].end - 1 |->
        { F[n].terminal : n \in { m \in Reach(F, {root}, {}) : F[m].is_token /\ F[m].start = i } } ]
\* The orders in which a set can be iterated
Orderings(s) ==
    { q \in [1 .. Cardinality(s) -> s] : \A a, b \in 1 .. Cardinality(s) : a # b => q[a] # q[b] }
\* One iteration order for each finals[i]
IterationOrders(finals) ==
    { o \in [DOMAIN finals -> UNION { Orderings(finals[i]) : i \in DOMAIN finals }] :
        \A i \in DOMAIN finals : o[i] \in Orderings(finals[i]) }

\* The score adjustment of terminal t among the terminals s of the token at
\* position i: the preferences and the heuristics, all but the bonus that an
\* infinitive verb hands to the nhm terminal before it
\* VerbObjects.SCORES.get(m.stofn + t.verb_cases) for the k-th reading of the
\* token: <<>> for None
verb_score(t, token, k) ==
    { p[2] : p \in { q \in VerbObjects.SCORES : q[1] = << token.t2[k].stofn, t.cases >> } }
\* The verb readings of the token that have a score for the terminal's cases
ScoredReadings(t, token) ==
    { k \in DOMAIN token.t2 : token.t2[k].ordfl = "so" /\ verb_score(t, token, k) # {} }
\* adjmax: for m in token.t2: if m.ordfl == "so": score = SCORES.get(key);
\* The tables as the configuration files leave them
ConfigTables ==
    [ VERBS1 |-> VERB_OBJECTS[2],
      VERBS2 |-> VERB_OBJECTS[3],
      \* VerbObjects.add makes a key of every verb with its cases
      PREPOSITIONS |-> VerbObjects.PREPOSITIONS \cup
                       { << k, {} >> : k \in { q[1] : q \in VerbObjects.SCORES } \
                                               { q[1] : q \in VerbObjects.PREPOSITIONS } },
      VERB_SUBJECTS |-> VERB_SUBJECTS,
      PP |-> PP,
      ADJ_ARGUMENTS |-> { << k, ADJ_ARGUMENTS(k) >> : k \in { <<"s", "a", "m", "þ", "y", "k", "k", "u", "r">> } },
      NounPreferences |-> { << w, { << p[2], p[3] >> : p \in { q \in NounPreferences : q[1] = w } } >> :
                              w \in { q[1] : q \in NounPreferences } },
      Preferences |-> { << w, Preferences(w) >> : w \in { <<"h", "a", "f", "a">> } } ]
TablesInit == cf_tables = ConfigTables

\* txt_last: the last part of a composite word, else the lower-case text
txt_last_of(token) ==
    IF token.t2 # <<>> /\ Contains(token.t2[1].ordmynd, <<"-">>)
    THEN LastPart(token.t2[1].ordmynd) ELSE token.t1_lower
\* The test left out (a mutant)
NounListedAny(word) == TRUE
\* txt_last in noun_prefs
NounListed(word) == \E p \in NounPreferences : p[1] = word

\* if score is not None: adjmax = score; break
verb_score_adj(t, token) ==
    LET scored == ScoredReadings(t, token)
        first_scored == CHOOSE k \in scored : \A j \in scored : k <= j
    IN IF scored = {} THEN 0
       ELSE CHOOSE x \in verb_score(t, token, first_scored) : TRUE

terminal_score(t, s, token, i, wstart, finals) ==
    LET txt == token.t1_lower
        composite == token.t2 # <<>> /\ Contains(token.t2[1].ordmynd, <<"-">>)
        txt_last == txt_last_of(token)
        same_first == Cardinality({ x.first : x \in s }) = 1
        prefs == IF same_first THEN <<>> ELSE Preferences(txt_last)
        worse == { -2 * prefs[k].factor : k \in { j \in DOMAIN prefs :
                     /\ t.first \in prefs[j].worse
                     /\ \E bt \in s \ {t} : bt.first \in prefs[j].better } }
        better == { (IF t.is_literal THEN 6 ELSE 4) * prefs[k].factor : k \in { j \in DOMAIN prefs :
                     /\ t.first \in prefs[j].better
                     /\ \E wt \in s \ {t} : wt.first \in prefs[j].worse } }
        adj_worse == CHOOSE x \in worse \cup {0} : \A y \in worse \cup {0} : x <= y
        adj_better == CHOOSE x \in better \cup {0} : \A y \in better \cup {0} : x >= y
        so_readings == { k \in DOMAIN token.t2 : token.t2[k].ordfl = "so" }
        gender == IF has_any_vbits(t, VBIT("kk")) THEN "kk"
                  ELSE IF has_any_vbits(t, VBIT("kvk")) THEN "kvk"
                  ELSE IF has_any_vbits(t, VBIT("hk")) THEN "hk" ELSE "None"
        noun_pref == IF NounListed(txt_last)
                     THEN { p \in NounPreferences : p[1] = txt_last /\ p[2] = gender }
                     ELSE {}
        numcases == IF t.vparts[1] = "0" THEN 0 ELSE IF t.vparts[1] = "1" THEN 1 ELSE 2
        adjmax == verb_score_adj(t, token)
        verb_args ==
            IF t.vcount > 0 /\ t.vparts[1] \in {"0", "1", "2"}
            THEN (IF numcases = 0
                     /\ \A k \in so_readings :
                          /\ token.t2[k].stofn \notin VerbObjects.VERBS0
                          /\ token.t2[k].ordmynd \notin VerbObjects.VERBS0
                          /\ ~Contains(token.t2[k].beyging, <<"M", "M">>)
                  THEN -5 ELSE 2 * numcases) + adjmax
            ELSE 0
        verb_form ==
            IF has_any_vbits(t, VBIT("sagnb")) THEN 6
            ELSE IF has_any_vbits(t, VBIT("lhþt")) THEN (IF has_variant(t, "vb") THEN -2 ELSE 3)
            ELSE IF has_vbits(t, VBIT("lh") \cup VBIT("nt")) THEN 12
            ELSE IF has_any_vbits(t, VBIT("mm")) THEN 3
            ELSE IF has_any_vbits(t, VBIT("vh")) THEN 2 ELSE 0
        verb_subj ==
            IF has_any_vbits(t, VBIT("subj"))
            THEN (IF has_variant(t, "none") THEN -3 ELSE 1) ELSE 0
        verb_nh ==
            IF has_any_vbits(t, VBIT("nh"))
            THEN (IF i > 0 /\ (i - 1) \in DOMAIN finals
                     /\ \E pt \in finals[i - 1] : pt.first = "nhm" THEN 4 ELSE 0)
                 + (IF \E pt \in s : pt.first = "no" /\ has_variant(pt, "ef")
                                      /\ has_any_vbits(pt, VBIT("ft")) THEN 4 ELSE 0)
            ELSE 0
        heuristic ==
            CASE t.first \in {"ao", "eo"} -> -1
              [] t.first = "no" ->
                    (IF has_any_vbits(t, VBIT("et")) THEN 1
                     ELSE IF is_abbrev(t) THEN -1 ELSE 0)
                    + (IF token.is_upper /\ token.t2 # <<>>
                          /\ \E k \in DOMAIN token.t2 :
                               token.t2[k].fl \in {"ism", "erm", "nafn", "föð", "móð", "örn", "fyr"}
                       THEN -5 ELSE 0)
                    + (IF noun_pref = {} THEN 0 ELSE (CHOOSE p \in noun_pref : TRUE)[3])
              [] t.first = "fs" ->
                    IF has_variant(t, "nf") THEN -8
                    ELSE IF txt = <<"v", "i", "ð">> /\ has_variant(t, "þgf") THEN 1
                    ELSE IF txt = <<"s", "e", "m">> /\ has_variant(t, "þf") THEN -4
                    ELSE IF txt = <<"á">> /\ has_variant(t, "þgf") THEN 4
                    ELSE 2
              [] t.first = "lo" -> IF composite THEN -3 ELSE 0
              [] t.first = "so" ->
                    verb_args + verb_form + verb_subj + verb_nh
                    + (IF i > 0 /\ token.is_upper THEN -4 ELSE 0)
              [] t.first = "tala" -> IF has_variant(t, "ef") THEN -4 ELSE 0
              [] t.first = "person" -> IF has_variant(t, "nf") THEN 2 ELSE 0
              [] t.first = "sérnafn" ->
                    IF token.t2 = <<>> THEN 4
                    ELSE -10 + (IF i = wstart THEN -6 ELSE 0)
              [] t.first = "fyrirtæki" -> 24
              [] t.first = "st" \/ (t.first = "sem" /\ t.colon_cat = "st") ->
                    IF txt = <<"s", "e", "m">> THEN -6 ELSE 0
              [] t.first = "abfn" -> IF t.vcount > 1 THEN 6 ELSE 2
              [] t.first = "gr" -> 2
              [] OTHER -> 0
    IN adj_worse + adj_better + (IF t.is_literal THEN 2 ELSE 0) + heuristic

\* for pt in scores[i - 1].keys(): if pt.first == "nhm": scores[i - 1][pt] += 2; break
\* The keys come in the order in which finals[i - 1] was iterated when the
\* dict was built.
prop_up_nhm(prev_scores, prev_order) ==
    LET nhm == { k \in DOMAIN prev_order : prev_order[k].first = "nhm" }
        k0 == CHOOSE k \in nhm : \A j \in nhm : k <= j
    IN IF nhm = {} THEN prev_scores
       ELSE [ prev_scores EXCEPT ![prev_order[k0]] = @ + 2 ]

\* _calc_terminal_scores(w) for the forest F with root w, the set finals[i]
\* being iterated in the order order[i]
calc_terminal_scores(F, root, order) ==
    LET finals == find_options(F, root)
        wstart == F[root].start
        wend == F[root].end
        token(i) == F[CHOOSE n \in Reach(F, {root}, {}) : F[n].is_token /\ F[n].start = i].token
        RECURSIVE terminals(_, _, _)
        \* for t in s: the terminals from the k-th on
        terminals(i, k, scores) ==
            IF k > Len(order[i]) THEN scores
            ELSE LET t == order[i][k]
                     s1 == [ scores EXCEPT ![i][t] =
                               @ + terminal_score(t, finals[i], token(i), i, wstart, finals) ]
                     s2 == IF /\ t.first = "so" /\ has_any_vbits(t, VBIT("nh"))
                              /\ i > 0 /\ (i - 1) \in DOMAIN finals
                              /\ \E pt \in finals[i - 1] : pt.first = "nhm"
                           THEN [ s1 EXCEPT ![i - 1] = prop_up_nhm(@, order[i - 1]) ]
                           ELSE s1
                 IN terminals(i, k + 1, s2)
        RECURSIVE positions(_, _)
        \* for i in range(w.start, w.end)
        positions(i, scores) ==
            IF i >= wend THEN scores
            ELSE LET s0 == (i :> [ t \in finals[i] |-> 0 ]) @@ scores
                 IN positions(i + 1, IF Cardinality(finals[i]) <= 1 THEN s0
                                     ELSE terminals(i, 1, s0))
    IN positions(wstart, <<>>)

\* The table keys subscripted by _calc_terminal_scores: noun_prefs[txt_last]
\* for a noun terminal of a token that has more than one terminal; the
\* other tables are read with 'in' and .get
score_subscripts(F, root) ==
    LET finals == find_options(F, root)
        token(i) == F[CHOOSE n \in Reach(F, {root}, {}) : F[n].is_token /\ F[n].start = i].token
    IN { << "NounPreferences", txt_last_of(token(i)) >> :
           i \in { j \in DOMAIN finals :
                     /\ Cardinality(finals[j]) > 1
                     /\ \E t \in finals[j] : t.first = "no"
                     /\ NounListed(txt_last_of(token(j))) } }

(* ---- ReductionInfo and ParseForestReducer ---- *)

\* A value of the two stacks: None, or a list of (terminal, token) pairs
NoneFrame == [ none |-> TRUE, list |-> <<>> ]
ListFrame(list) == [ none |-> FALSE, list |-> list ]
\* dict(sc=0); the keys "so" and "sl" are present when named in keys
ScoreDict(sc) == [ sc |-> sc, keys |-> {}, so |-> <<>>, sl |-> <<>> ]
\* _current_verb_stack[-1] = val
set_current_verb(stack, val) == [ stack EXCEPT ![Len(stack)] = val ]
\* results is None: _visit_nonterminal of a node that spans no token
NoResults ==
    [ none |-> TRUE, sc |-> <<>>, nt_none |-> TRUE, nt |-> BIN_Nonterminal(<<>>, {}, FALSE, 0),
      pushed_prep_bonus |-> FALSE, start_verb |-> NoneFrame ]

\* ReductionInfo.__init__: returns the object and the two stacks
ReductionInfo(node, prep_stack, verb_stack) ==
    LET nt_none == ~node.is_completed
        nt == node.nonterminal
        verb == verb_stack[Len(verb_stack)]
        enable == ~nt_none /\ "enable_prep_bonus" \in nt.tags
        begin == ~nt_none /\ ~enable /\ ("begin_prep_scope" \in nt.tags \/ nt.is_noun_phrase)
        start_verb == IF begin THEN NoneFrame ELSE verb
    IN [ info |-> [ none |-> FALSE, sc |-> <<>>, nt_none |-> nt_none, nt |-> nt,
                    pushed_prep_bonus |-> enable \/ begin, start_verb |-> start_verb ],
         prep |-> IF enable THEN Append(prep_stack, verb)
                  ELSE IF begin THEN Append(prep_stack, NoneFrame) ELSE prep_stack,
         verb |-> Append(verb_stack, start_verb) ]

\* ReductionInfo.add_child_score(ix, sc): returns the object and the verb stack
add_child_score(info, ix, sc, verb_stack) ==
    LET old == IF ix \in DOMAIN info.sc THEN info.sc[ix] ELSE ScoreDict(0)
        so == IF "so" \in sc.keys THEN old.so \o sc.so ELSE old.so
        sl == IF "sl" \in sc.keys THEN old.sl \o sc.sl ELSE old.sl
        new == [ sc |-> old.sc + sc.sc, keys |-> old.keys \cup sc.keys, so |-> so, sl |-> sl ]
    IN [ info |-> [ info EXCEPT !.sc = (ix :> new) @@ @ ],
         verb |-> IF "sl" \in sc.keys THEN set_current_verb(verb_stack, ListFrame(sc.sl))
                  ELSE verb_stack ]

\* A family starts with the current verb as the family before left it
add_child_production_keep(info, verb_stack) == verb_stack
\* ReductionInfo.add_child_production(): returns the verb stack
add_child_production(info, verb_stack) == set_current_verb(verb_stack, info.start_verb)

\* s[0][0] of sorted(csc.items(), key=lambda x: (x[1]["sc"], -x[0]), reverse=True),
\* with the ties going to the highest index instead (a mutant)
BestFamilyHighestIndex(csc) ==
    CHOOSE ix \in DOMAIN csc : \A j \in DOMAIN csc :
        csc[j].sc < csc[ix].sc \/ (csc[j].sc = csc[ix].sc /\ j <= ix)
\* s[0][0] of sorted(csc.items(), key=lambda x: (x[1]["sc"], -x[0]), reverse=True)
BestFamily(csc) ==
    CHOOSE ix \in DOMAIN csc : \A j \in DOMAIN csc :
        csc[j].sc < csc[ix].sc \/ (csc[j].sc = csc[ix].sc /\ (0 - j) <= (0 - ix))

\* The try block of ReductionInfo.process(node): the indices given to
\* node.reduce_to, in the order of the calls, and the dict returned
process(info, node, prep_stack) ==
    LET csc == info.sc
        one == Cardinality(DOMAIN csc) = 1
        ix == IF one THEN CHOOSE j \in DOMAIN csc : TRUE ELSE BestFamily(csc)
        nt == info.nt
        sc1 == csc[ix].sc + nt.score
               + (IF "apply_length_bonus" \in nt.tags
                  THEN (node.end - node.start - 1) * LENGTH_BONUS_FACTOR ELSE 0)
               + (IF "apply_prep_bonus" \in nt.tags /\ ~prep_stack[Len(prep_stack)].none
                  THEN VERB_PREP_BONUS ELSE 0)
        picked == IF "pick_up_verb" \in nt.tags /\ "so" \in csc[ix].keys
                  THEN [ csc[ix] EXCEPT !.sl = csc[ix].so, !.keys = @ \cup {"sl"} ]
                  ELSE csc[ix]
        purged == IF nt.tags \cap {"begin_prep_scope", "purge_verb"} # {}
                  THEN [ picked EXCEPT !.keys = {}, !.so = <<>>, !.sl = <<>> ]
                  ELSE picked
    IN IF DOMAIN csc = {} THEN [ reduce_to |-> <<>>, sc |-> ScoreDict(0) ]
       ELSE [ reduce_to |-> IF one THEN <<>> ELSE <<ix>>,
              sc |-> IF info.nt_none THEN csc[ix] ELSE [ purged EXCEPT !.sc = sc1 ] ]
\* process without its finally block (a mutant)
process_finally_none(info, prep_stack, verb_stack) ==
    [ prep |-> prep_stack, verb |-> verb_stack ]
\* The finally block of process with pop_prep_bonus left out (a mutant)
process_finally_verb_only(info, prep_stack, verb_stack) ==
    [ prep |-> prep_stack, verb |-> SubSeq(verb_stack, 1, Len(verb_stack) - 1) ]
\* The finally block of process: pop what __init__ pushed
process_finally(info, prep_stack, verb_stack) ==
    [ prep |-> IF info.pushed_prep_bonus THEN SubSeq(prep_stack, 1, Len(prep_stack) - 1)
               ELSE prep_stack,
      verb |-> SubSeq(verb_stack, 1, Len(verb_stack) - 1) ]

\* ParseForestReducer.verb_prep_bonus. The verb token of a leaf in the forest
\* was matched by its verb terminal; the tokens here have one verb reading,
\* which is then the meaning match_with_meaning returns.
verb_prep_bonus(prep_terminal, prep_token, verb_terminal, verb_token) ==
    LET m == verb_token.t2[CHOOSE k \in DOMAIN verb_token.t2 : verb_token.t2[k].ordfl = "so"]
        verb == IF Contains(m.beyging, <<"M", "M">>) /\ ~EndsWith(m.stofn, <<"s", "t">>)
                THEN m.stofn \o <<"s", "t">> ELSE m.stofn
        prep_with_case ==
            IF prep_terminal.vcount > 0 /\ prep_terminal.vparts[1] \in { CASES[k] : k \in DOMAIN CASES }
            THEN << prep_token, prep_terminal.vparts[1] >>
            ELSE << prep_token >>
    IN IF \E p \in VerbObjects.PREPOSITIONS :
             p[1] = << verb, verb_terminal.cases >> /\ prep_with_case \in p[2]
       THEN VERB_PREP_BONUS ELSE VERB_PREP_PENALTY

\* final_bonus = max(final_bonus, bonus), and a variant that keeps the lowest
WorstBonus(a, b) == IF a < b THEN a ELSE b
BestBonus(a, b) == IF a > b THEN a ELSE b

\* self._bonus_cache.get(key): the bonuses kept under the key (none: None)
CachedBonus(cache, key) == { q[2] : q \in { e \in cache : e[1] = key } }

RECURSIVE PrepBonusLoop(_, _, _, _, _)
\* for terminal, token in prep_bonus: the entries from the k-th on; final is
\* final_bonus (<<>> for None), and the cache is a set of (key, bonus) pairs
PrepBonusLoop(node, list, k, cache, final) ==
    IF k > Len(list) THEN [ cache |-> cache, final |-> final ]
    ELSE LET key == << node.terminal, node.token.t1_lower, list[k][1], list[k][2] >>
             hit == CachedBonus(cache, key)
             bonus == IF hit # {} THEN CHOOSE b \in hit : TRUE
                      ELSE verb_prep_bonus(key[1], key[2], key[3], key[4])
         IN PrepBonusLoop(node, list, k + 1,
                          IF hit # {} THEN cache ELSE cache \cup { << key, bonus >> },
                          IF final = <<>> THEN << bonus >>
                          ELSE << BestBonus(final[1], bonus) >>)

\* ParseForestReducer._visit_token: the dict returned and the bonus cache
\* afterwards
visit_token(node, scores, prep_bonus, cache) ==
    LET sc == scores[node.start][node.terminal]
        zone == matches_category(node.terminal, "fs") /\ ~prep_bonus.none
        loop == IF zone THEN PrepBonusLoop(node, prep_bonus.list, 1, cache, <<>>)
                ELSE [ cache |-> cache, final |-> <<>> ]
        final_bonus == IF loop.final = <<>> THEN 0 ELSE loop.final[1]
    IN [ d |-> IF ~matches_category(node.terminal, "fs") /\ matches_category(node.terminal, "so")
               THEN [ ScoreDict(sc) EXCEPT !.keys = {"so"},
                                           !.so = << << node.terminal, node.token >> >> ]
               ELSE ScoreDict(sc + final_bonus),
         cache |-> loop.cache ]

\* ParseForestReducer._check_stacks
check_stacks(prep_stack, verb_stack) ==
    /\ Len(prep_stack) = 1 /\ prep_stack[1].none
    /\ Len(verb_stack) = 1 /\ verb_stack[1].none

(* ---- the forests reduced ---- *)

\* Readings of the words of the forests
RV == [
    ad_nhm |-> [stofn |-> <<"a", "ð">>, ordfl |-> "nhm", fl |-> "alm", ordmynd |-> <<"a", "ð">>, beyging |-> <<"-">>],
    hafa_so |-> [stofn |-> <<"h", "a", "f", "a">>, ordfl |-> "so", fl |-> "alm", ordmynd |-> <<"h", "a", "f", "a">>, beyging |-> <<"G", "M", "-", "N", "H">>],
    haf_EFFT |-> [stofn |-> <<"h", "a", "f">>, ordfl |-> "hk", fl |-> "alm", ordmynd |-> <<"h", "a", "f", "a">>, beyging |-> <<"E", "F", "F", "T">>],
    horfa_so |-> [stofn |-> <<"h", "o", "r", "f", "a">>, ordfl |-> "so", fl |-> "alm", ordmynd |-> <<"h", "o", "r", "f", "i", "r">>, beyging |-> <<"G", "M", "-", "F", "H", "-", "N", "T", "-", "3", "P", "-", "E", "T">>],
    a_fs |-> [stofn |-> <<"á">>, ordfl |-> "fs", fl |-> "alm", ordmynd |-> <<"á">>, beyging |-> <<"-">>],
    saga_TFET |-> [stofn |-> <<"s", "a", "g", "a">>, ordfl |-> "kvk", fl |-> "alm", ordmynd |-> <<"s", "ö", "g", "u">>, beyging |-> <<"Þ", "F", "E", "T">>],
    saga_TGFET |-> [stofn |-> <<"s", "a", "g", "a">>, ordfl |-> "kvk", fl |-> "alm", ordmynd |-> <<"s", "ö", "g", "u">>, beyging |-> <<"Þ", "G", "F", "E", "T">>],
    bera_so |-> [stofn |-> <<"b", "e", "r", "a">>, ordfl |-> "so", fl |-> "alm", ordmynd |-> <<"b", "e", "r">>, beyging |-> <<"G", "M", "-", "F", "H", "-", "N", "T", "-", "1", "P", "-", "E", "T">>],
    berja_so |-> [stofn |-> <<"b", "e", "r", "j", "a">>, ordfl |-> "so", fl |-> "alm", ordmynd |-> <<"b", "e", "r">>, beyging |-> <<"G", "M", "-", "B", "H", "-", "S", "T">>],
    ber_NFET |-> [stofn |-> <<"b", "e", "r">>, ordfl |-> "hk", fl |-> "alm", ordmynd |-> <<"b", "e", "r">>, beyging |-> <<"N", "F", "E", "T">>],
    hus_TFET |-> [stofn |-> <<"h", "ú", "s">>, ordfl |-> "hk", fl |-> "alm", ordmynd |-> <<"h", "ú", "s">>, beyging |-> <<"Þ", "F", "E", "T">>] ]

\* Two families that score 10 (index 0) and 7 (index 1) over one token
ForestC ==
    << TokenNode(BIN_Terminal(<<"no", "et", "nf", "hk">>), BIN_Token(<<"h", "ú", "s">>, << R.hus_NFET >>), 0),
       NonterminalNode(BIN_Nonterminal(<<"A">>, {}, FALSE, 10), TRUE, 0, 1, << <<1>> >>),
       NonterminalNode(BIN_Nonterminal(<<"B">>, {}, FALSE, 7), TRUE, 0, 1, << <<1>> >>),
       NonterminalNode(BIN_Nonterminal(<<"S", "0">>, {}, FALSE, 0), TRUE, 0, 1, << <<2>>, <<3>> >>) >>

\* Six families that score 1, 3, 8, 0, 2 and 8: the indices 2 and 5 tie
ForestD ==
    << TokenNode(BIN_Terminal(<<"no", "et", "nf", "hk">>), BIN_Token(<<"h", "ú", "s">>, << R.hus_NFET >>), 0),
       NonterminalNode(BIN_Nonterminal(<<"A">>, {}, FALSE, 1), TRUE, 0, 1, << <<1>> >>),
       NonterminalNode(BIN_Nonterminal(<<"B">>, {}, FALSE, 3), TRUE, 0, 1, << <<1>> >>),
       NonterminalNode(BIN_Nonterminal(<<"C">>, {}, FALSE, 8), TRUE, 0, 1, << <<1>> >>),
       NonterminalNode(BIN_Nonterminal(<<"D">>, {}, FALSE, 0), TRUE, 0, 1, << <<1>> >>),
       NonterminalNode(BIN_Nonterminal(<<"E">>, {}, FALSE, 2), TRUE, 0, 1, << <<1>> >>),
       NonterminalNode(BIN_Nonterminal(<<"F">>, {}, FALSE, 8), TRUE, 0, 1, << <<1>> >>),
       NonterminalNode(BIN_Nonterminal(<<"S", "0">>, {}, FALSE, 0), TRUE, 0, 1,
                       << <<2>>, <<3>>, <<4>>, <<5>>, <<6>>, <<7>> >>) >>

\* 'horfir á sögu': a verb read with no argument or with one, a preposition
\* phrase below a node tagged enable_prep_bonus that both readings share, a
\* noun phrase in it, an interior node and an empty optional nonterminal
ForestP ==
    LET horfir == BIN_Token(<<"h", "o", "r", "f", "i", "r">>, << RV.horfa_so >>)
        a == BIN_Token(<<"á">>, << RV.a_fs >>)
        sogu == BIN_Token(<<"s", "ö", "g", "u">>, << RV.saga_TFET, RV.saga_TGFET >>)
    IN << TokenNode(BIN_Terminal(<<"so", "0", "et", "p3">>), horfir, 0),
          TokenNode(BIN_Terminal(<<"so", "1", "þgf", "et", "p3">>), horfir, 0),
          TokenNode(BIN_Terminal(<<"fs", "þf">>), a, 1),
          TokenNode(BIN_LiteralTerminal("á", "fs", <<"þgf">>), a, 1),
          TokenNode(BIN_Terminal(<<"no", "et", "þf", "kvk">>), sogu, 2),
          TokenNode(BIN_Terminal(<<"no", "et", "þgf", "kvk">>), sogu, 2),
          \* 7, 8: the noun phrases
          NonterminalNode(BIN_Nonterminal(<<"N", "l", "_", "þ", "f">>, {}, FALSE, 0), TRUE, 2, 3, << <<5>> >>),
          NonterminalNode(BIN_Nonterminal(<<"N", "l", "_", "þ", "g", "f">>, {}, FALSE, 1), TRUE, 2, 3, << <<6>> >>),
          \* 9: the preposition phrase, 10: the node that enables the bonus
          NonterminalNode(BIN_Nonterminal(<<"F", "s", "L", "i", "ð", "u", "r">>, {"apply_length_bonus", "apply_prep_bonus"}, FALSE, 0),
                          TRUE, 1, 3, << <<3, 7>>, <<4, 8>> >>),
          NonterminalNode(BIN_Nonterminal(<<"S", "a", "g", "n", "I", "n", "n", "s", "k", "o", "t">>, {"enable_prep_bonus"}, FALSE, 0),
                          TRUE, 1, 3, << <<9>> >>),
          \* 11, 12: the verb picked up; 13, 14: interior nodes over it
          NonterminalNode(BIN_Nonterminal(<<"S", "ö", "g", "n", "_", "0">>, {"pick_up_verb"}, FALSE, 0), TRUE, 0, 1, << <<1>> >>),
          NonterminalNode(BIN_Nonterminal(<<"S", "ö", "g", "n", "_", "1">>, {"pick_up_verb"}, FALSE, 0), TRUE, 0, 1, << <<2>> >>),
          NonterminalNode(BIN_Nonterminal(<<"S", "e", "t", "n", "i", "n", "g">>, {}, FALSE, 0), FALSE, 0, 1, << <<11>> >>),
          NonterminalNode(BIN_Nonterminal(<<"S", "e", "t", "n", "i", "n", "g">>, {}, FALSE, 0), FALSE, 0, 1, << <<12>> >>),
          \* 15: the sentence, 16: an empty optional, 17: the root
          NonterminalNode(BIN_Nonterminal(<<"S", "e", "t", "n", "i", "n", "g">>, {"begin_prep_scope"}, FALSE, 0),
                          TRUE, 0, 3, << <<13, 10>>, <<14, 10>> >>),
          NonterminalNode(BIN_Nonterminal(<<"A", "t", "v", "i", "k", "s", "l", "i", "ð", "u", "r", "?">>, {}, TRUE, 0), TRUE, 3, 3, << <<0>> >>),
          NonterminalNode(BIN_Nonterminal(<<"S", "0">>, {}, FALSE, 0), TRUE, 0, 3, << <<15, 16>> >>) >>

\* 'að hafa': two terminals whose first part is nhm at position 0, and an
\* infinitive verb terminal next to a plural genitive noun terminal at 1
ForestN ==
    LET ad == BIN_Token(<<"a", "ð">>, << RV.ad_nhm >>)
        hafa == BIN_Token(<<"h", "a", "f", "a">>, << RV.hafa_so, RV.haf_EFFT >>)
    IN << TokenNode(BIN_Terminal(<<"nhm">>), ad, 0),
          TokenNode(BIN_Terminal(<<"nhm", "abbrev">>), ad, 0),
          TokenNode(BIN_Terminal(<<"so", "0", "nh">>), hafa, 1),
          TokenNode(BIN_Terminal(<<"no", "ft", "ef", "hk">>), hafa, 1),
          NonterminalNode(BIN_Nonterminal(<<"N", "h", "m">>, {}, FALSE, 0), TRUE, 0, 1, << <<1>> >>),
          NonterminalNode(BIN_Nonterminal(<<"N", "h", "m", "S", "k", "s", "t">>, {}, FALSE, 1), TRUE, 0, 1, << <<2>> >>),
          NonterminalNode(BIN_Nonterminal(<<"L", "i", "ð", "u", "r">>, {}, FALSE, 0), TRUE, 1, 2, << <<3>>, <<4>> >>),
          NonterminalNode(BIN_Nonterminal(<<"S", "0">>, {}, FALSE, 0), TRUE, 0, 2, << <<5, 7>>, <<6, 7>> >>) >>

\* A completed node that was given no family
ForestE ==
    << NonterminalNode(BIN_Nonterminal(<<"S", "0">>, {}, FALSE, 0), TRUE, 0, 1, <<>>) >>

\* 'horfir á sögu sögu': a node tagged enable_prep_bonus that two parents
\* share; below it an ambiguous interior node, a noun phrase, nodes tagged
\* begin_prep_scope, purge_prep and no_prep, and an empty optional nonterminal
ForestU ==
    LET horfir == BIN_Token(<<"h", "o", "r", "f", "i", "r">>, << RV.horfa_so >>)
        a == BIN_Token(<<"á">>, << RV.a_fs >>)
        sogu == BIN_Token(<<"s", "ö", "g", "u">>, << RV.saga_TFET, RV.saga_TGFET >>)
    IN << TokenNode(BIN_Terminal(<<"so", "0", "et", "p3">>), horfir, 0),
          TokenNode(BIN_Terminal(<<"fs", "þf">>), a, 1),
          TokenNode(BIN_LiteralTerminal("á", "fs", <<"þgf">>), a, 1),
          TokenNode(BIN_Terminal(<<"no", "et", "þf", "kvk">>), sogu, 2),
          TokenNode(BIN_Terminal(<<"no", "et", "þgf", "kvk">>), sogu, 3),
          \* 6: a noun phrase, 7: the ambiguous node, 8, 9: a nested scope
          NonterminalNode(BIN_Nonterminal(<<"N", "l", "_", "þ", "f">>, {}, FALSE, 0), TRUE, 2, 3, << <<4>> >>),
          NonterminalNode(BIN_Nonterminal(<<"F", "s">>, {}, FALSE, 0), TRUE, 1, 2, << <<2>>, <<3>> >>),
          NonterminalNode(BIN_Nonterminal(<<"N", "l", "_", "þ", "g", "f">>, {}, FALSE, 0), TRUE, 3, 4, << <<5>> >>),
          NonterminalNode(BIN_Nonterminal(<<"I", "n", "n", "r", "i">>, {"begin_prep_scope"}, FALSE, 0), TRUE, 3, 4, << <<8>> >>),
          \* 10, 11: empty nodes tagged purge_prep and no_prep, 12: an empty optional
          NonterminalNode(BIN_Nonterminal(<<"H", "r", "e", "i", "n", "t">>, {"purge_prep"}, FALSE, 0), TRUE, 4, 4, << <<0>> >>),
          NonterminalNode(BIN_Nonterminal(<<"A", "n">>, {"no_prep"}, FALSE, 0), TRUE, 4, 4, << <<0>> >>),
          NonterminalNode(BIN_Nonterminal(<<"A", "t", "v", "i", "k", "s", "l", "i", "ð", "u", "r", "?">>, {}, TRUE, 0), TRUE, 4, 4, << <<0>> >>),
          \* 13..16: the interior nodes of the node 17 that enables the bonus
          NonterminalNode(BIN_Nonterminal(<<"S", "a", "g", "n", "I", "n", "n", "s", "k", "o", "t">>, {"enable_prep_bonus"}, FALSE, 0), FALSE, 4, 4, << <<11, 12>> >>),
          NonterminalNode(BIN_Nonterminal(<<"S", "a", "g", "n", "I", "n", "n", "s", "k", "o", "t">>, {"enable_prep_bonus"}, FALSE, 0), FALSE, 4, 4, << <<10, 13>> >>),
          NonterminalNode(BIN_Nonterminal(<<"S", "a", "g", "n", "I", "n", "n", "s", "k", "o", "t">>, {"enable_prep_bonus"}, FALSE, 0), FALSE, 3, 4, << <<9, 14>> >>),
          NonterminalNode(BIN_Nonterminal(<<"S", "a", "g", "n", "I", "n", "n", "s", "k", "o", "t">>, {"enable_prep_bonus"}, FALSE, 0), FALSE, 2, 4, << <<6, 15>> >>),
          NonterminalNode(BIN_Nonterminal(<<"S", "a", "g", "n", "I", "n", "n", "s", "k", "o", "t">>, {"enable_prep_bonus"}, FALSE, 0), TRUE, 1, 4, << <<7, 16>> >>),
          \* 18: the verb, 19, 20: the two parents, 21: the root
          NonterminalNode(BIN_Nonterminal(<<"S", "ö", "g", "n", "_", "0">>, {"pick_up_verb"}, FALSE, 0), TRUE, 0, 1, << <<1>> >>),
          NonterminalNode(BIN_Nonterminal(<<"S", "e", "t", "n", "i", "n", "g", "A">>, {}, FALSE, 0), TRUE, 0, 4, << <<18, 17>> >>),
          NonterminalNode(BIN_Nonterminal(<<"S", "e", "t", "n", "i", "n", "g", "B">>, {}, FALSE, 1), TRUE, 0, 4, << <<18, 17>> >>),
          NonterminalNode(BIN_Nonterminal(<<"S", "0">>, {}, FALSE, 0), TRUE, 0, 4, << <<19>>, <<20>> >>) >>

\* 'ber hús': the word form 'ber' of the verbs bera and berja, both with a
\* score for an accusative argument, and of the noun ber
ForestS ==
    LET ber == BIN_Token(<<"b", "e", "r">>, << RV.bera_so, RV.berja_so, RV.ber_NFET >>)
        hus == BIN_Token(<<"h", "ú", "s">>, << RV.hus_TFET >>)
    IN << TokenNode(BIN_Terminal(<<"so", "1", "þf", "et", "p3">>), ber, 0),
          TokenNode(BIN_Terminal(<<"no", "et", "nf", "hk">>), ber, 0),
          TokenNode(BIN_Terminal(<<"no", "et", "þf", "hk">>), hus, 1),
          NonterminalNode(BIN_Nonterminal(<<"S", "ö", "g", "n", "_", "1">>, {"pick_up_verb"}, FALSE, 0), TRUE, 0, 1, << <<1>> >>),
          NonterminalNode(BIN_Nonterminal(<<"N", "l", "_", "n", "f">>, {}, FALSE, 0), TRUE, 0, 1, << <<2>> >>),
          NonterminalNode(BIN_Nonterminal(<<"N", "l", "_", "þ", "f">>, {}, FALSE, 0), TRUE, 1, 2, << <<3>> >>),
          NonterminalNode(BIN_Nonterminal(<<"S", "0">>, {}, FALSE, 0), TRUE, 0, 2, << <<4, 6>>, <<5, 6>> >>) >>

\* 'horfir hafa á sögu': a sentence node with three families over the same
\* tokens; in the first and the third the two verbs are picked up, in the
\* second they are not, and the preposition phrase below enable_prep_bonus
\* follows
ForestV ==
    LET horfir == BIN_Token(<<"h", "o", "r", "f", "i", "r">>, << RV.horfa_so >>)
        hafa == BIN_Token(<<"h", "a", "f", "a">>, << RV.hafa_so >>)
        a == BIN_Token(<<"á">>, << RV.a_fs >>)
        sogu == BIN_Token(<<"s", "ö", "g", "u">>, << RV.saga_TFET >>)
    IN << TokenNode(BIN_Terminal(<<"so", "0", "et", "p3">>), horfir, 0),
          TokenNode(BIN_Terminal(<<"so", "0", "nh">>), hafa, 1),
          TokenNode(BIN_Terminal(<<"fs", "þf">>), a, 2),
          TokenNode(BIN_Terminal(<<"no", "et", "þf", "kvk">>), sogu, 3),
          \* 5: the noun phrase, 6: the preposition phrase, 7: enables the bonus
          NonterminalNode(BIN_Nonterminal(<<"N", "l", "_", "þ", "f">>, {}, FALSE, 0), TRUE, 3, 4, << <<4>> >>),
          NonterminalNode(BIN_Nonterminal(<<"F", "s", "L", "i", "ð", "u", "r">>, {}, FALSE, 0), TRUE, 2, 4, << <<3, 5>> >>),
          NonterminalNode(BIN_Nonterminal(<<"S", "a", "g", "n", "I", "n", "n", "s", "k", "o", "t">>, {"enable_prep_bonus"}, FALSE, 0),
                          TRUE, 2, 4, << <<6>> >>),
          \* 8: the verbs picked up, 9: the verbs not picked up
          NonterminalNode(BIN_Nonterminal(<<"S", "a", "g", "n", "R", "u", "n", "a">>, {"pick_up_verb"}, FALSE, 0), TRUE, 0, 2, << <<1, 2>> >>),
          NonterminalNode(BIN_Nonterminal(<<"S", "a", "g", "n", "i", "r">>, {}, FALSE, 1), TRUE, 0, 2, << <<1, 2>> >>),
          NonterminalNode(BIN_Nonterminal(<<"S", "a", "g", "n", "R", "u", "n", "a", "B">>, {"pick_up_verb"}, FALSE, 0), TRUE, 0, 2, << <<1, 2>> >>),
          \* 11: the sentence, 12: the root
          NonterminalNode(BIN_Nonterminal(<<"S", "e", "t", "n", "i", "n", "g">>, {"begin_prep_scope"}, FALSE, 0),
                          TRUE, 0, 4, << <<8, 7>>, <<9, 7>>, <<10, 7>> >>),
          NonterminalNode(BIN_Nonterminal(<<"S", "0">>, {}, FALSE, 0), TRUE, 0, 4, << <<11>> >>) >>

\* The inputs of go_with_score: a forest and its root; root 0 is forest None
Forests ==
    << [ forest |-> ForestC, root |-> 4 ],
       [ forest |-> ForestD, root |-> 8 ],
       [ forest |-> ForestP, root |-> 17 ],
       [ forest |-> ForestN, root |-> 8 ],
       [ forest |-> ForestE, root |-> 1 ],
       [ forest |-> <<>>, root |-> 0 ],
       [ forest |-> ForestU, root |-> 21 ],
       [ forest |-> ForestV, root |-> 12 ],
       [ forest |-> ForestS, root |-> 7 ] >>

(* ---- Reducer.go_with_score as a state machine ---- *)

NoPrev == [ kind |-> "none", calls |-> <<>>, score |-> 0, tree |-> <<>>, single |-> FALSE ]

RECURSIVE Tree(_, _)
\* The tree below node n as the forest F holds it: the nodes by what they
\* are and not by their identity (0 is the empty child, None)
Tree(F, n) ==
    IF n = 0 THEN [ kind |-> "None" ]
    ELSE IF F[n].is_token
    THEN [ kind |-> "token", terminal |-> F[n].terminal, token |-> F[n].token, start |-> F[n].start ]
    ELSE [ kind |-> "nonterminal", nonterminal |-> F[n].nonterminal, is_completed |-> F[n].is_completed,
           start |-> F[n].start, end |-> F[n].end,
           families |-> [ f \in DOMAIN F[n].families |->
                            [ c \in DOMAIN F[n].families[f] |-> Tree(F, F[n].families[f][c]) ] ] ]
\* Every node of the tree below root has at most one family
SingleFamily(F, root) == \A n \in Reach(F, {root}, {}) : Len(F[n].families) <= 1
Top == rd_nav[Len(rd_nav)]

ReducerStart(scen, run, first) ==
    /\ rd_scen = scen
    /\ rd_run = run
    /\ rd_prev = first
    /\ rd_forest = IF scen = 0 THEN <<>> ELSE Forests[scen].forest
    /\ rd_order = <<>>
    /\ rd_scores = <<>>
    /\ rd_arg = 0
    /\ rd_ret = ScoreDict(0)
    /\ rd_nav = <<>>
    /\ rd_visited = <<>>
    /\ rd_prep_bonus_stack = <<>>
    /\ rd_current_verb_stack = <<>>
    /\ rd_bonus_cache = {}
    /\ rd_reduce_calls = <<>>

ReducerInit ==
    /\ \E scen \in DOMAIN Forests : ReducerStart(scen, 1, NoPrev)
    /\ rd_pc = "init"

ReducerIdle ==
    /\ ReducerStart(0, 0, NoPrev)
    /\ rd_pc = "idle"

\* go_with_score(forest) up to the call of _reduce: (None, 0) for no forest,
\* else the terminal scores, each set finals[i] iterated in some order
rd_GoWithScore ==
    /\ rd_pc = "init"
    /\ LET root == Forests[rd_scen].root
       IN IF root = 0
          THEN /\ rd_pc' = "done"
               /\ UNCHANGED <<rd_order, rd_scores, cf_tables>>
          ELSE /\ \E order \in IterationOrders(find_options(rd_forest, root)) :
                    /\ rd_order' = order
                    /\ rd_scores' = calc_terminal_scores(rd_forest, root, order)
               /\ cf_tables' = Subscripted(cf_tables, score_subscripts(rd_forest, root))
               /\ rd_pc' = "scored"
    /\ UNCHANGED <<rd_scen, rd_run, rd_prev, rd_forest, rd_arg, rd_ret, rd_nav, rd_visited,
                   rd_prep_bonus_stack, rd_current_verb_stack, rd_bonus_cache, rd_reduce_calls>>
    /\ UNCHANGED exceptReducerTables

\* _reduce: ParseForestReducer(grammar, scores).go(w) up to the walk:
\* _check_stacks, PrepositionUnpacker.navigate(root_node), and the call of
\* the walk from the root
rd_Reduce ==
    /\ rd_pc = "scored"
    /\ rd_prep_bonus_stack' = << NoneFrame >>
    /\ rd_current_verb_stack' = << NoneFrame >>
    /\ rd_bonus_cache' = {}
    /\ rd_forest' = PrepositionUnpacker(rd_forest, {}, Forests[rd_scen].root).F
    /\ rd_visited' = <<>>
    /\ rd_arg' = Forests[rd_scen].root
    /\ rd_pc' = "call"
    /\ UNCHANGED <<rd_scen, rd_run, rd_prev, rd_order, rd_scores, rd_ret, rd_nav, rd_reduce_calls>>
    /\ UNCHANGED exceptReducer

\* The walk comes to a node it has seen: the result kept for it
rd_VisitSeen ==
    /\ rd_pc = "call"
    /\ rd_arg \in DOMAIN rd_visited
    /\ rd_ret' = rd_visited[rd_arg]
    /\ rd_pc' = "ret"
    /\ UNCHANGED <<rd_scen, rd_run, rd_prev, rd_order, rd_scores, rd_forest, rd_arg, rd_nav,
                   rd_visited, rd_prep_bonus_stack, rd_current_verb_stack, rd_bonus_cache,
                   rd_reduce_calls>>
    /\ UNCHANGED exceptReducer

\* _visit_epsilon
rd_VisitEpsilon ==
    /\ rd_pc = "call"
    /\ rd_arg \notin DOMAIN rd_visited
    /\ rd_arg = 0
    /\ rd_ret' = ScoreDict(0)
    /\ rd_visited' = (rd_arg :> ScoreDict(0)) @@ rd_visited
    /\ rd_pc' = "ret"
    /\ UNCHANGED <<rd_scen, rd_run, rd_prev, rd_order, rd_scores, rd_forest, rd_arg, rd_nav,
                   rd_prep_bonus_stack, rd_current_verb_stack, rd_bonus_cache, rd_reduce_calls>>
    /\ UNCHANGED exceptReducer

\* _visit_token
rd_VisitToken ==
    /\ rd_pc = "call"
    /\ rd_arg \notin DOMAIN rd_visited
    /\ rd_arg # 0
    /\ rd_forest[rd_arg].is_token
    /\ LET v == visit_token(rd_forest[rd_arg], rd_scores,
                            rd_prep_bonus_stack[Len(rd_prep_bonus_stack)], rd_bonus_cache)
       IN /\ rd_ret' = v.d
          /\ rd_visited' = (rd_arg :> v.d) @@ rd_visited
          /\ rd_bonus_cache' = v.cache
    /\ rd_pc' = "ret"
    /\ UNCHANGED <<rd_scen, rd_run, rd_prev, rd_order, rd_scores, rd_forest, rd_arg, rd_nav,
                   rd_prep_bonus_stack, rd_current_verb_stack, rd_reduce_calls>>
    /\ UNCHANGED exceptReducer

\* _visit_nonterminal: ReductionInfo(self, node) if node.is_span else None.
\* The frame of the walk also notes the two stacks as they are on entry.
rd_VisitNonterminal ==
    /\ rd_pc = "call"
    /\ rd_arg \notin DOMAIN rd_visited
    /\ rd_arg # 0
    /\ ~rd_forest[rd_arg].is_token
    /\ LET node == rd_forest[rd_arg]
           r == ReductionInfo(node, rd_prep_bonus_stack, rd_current_verb_stack)
           entry == [ prep |-> rd_prep_bonus_stack, verb |-> rd_current_verb_stack ]
       IN IF node.start < node.end
          THEN /\ rd_nav' = Append(rd_nav, [ node |-> rd_arg, results |-> r.info, ix |-> 0, child |-> 0,
                                            entry |-> entry ])
               /\ rd_prep_bonus_stack' = r.prep
               /\ rd_current_verb_stack' = r.verb
          ELSE /\ rd_nav' = Append(rd_nav, [ node |-> rd_arg, results |-> NoResults, ix |-> 0, child |-> 0,
                                            entry |-> entry ])
               /\ UNCHANGED <<rd_prep_bonus_stack, rd_current_verb_stack>>
    /\ rd_pc' = "family"
    /\ UNCHANGED <<rd_scen, rd_run, rd_prev, rd_order, rd_scores, rd_forest, rd_arg, rd_ret,
                   rd_visited, rd_bonus_cache, rd_reduce_calls>>
    /\ UNCHANGED exceptReducer

\* _visit_family(results, level, node, ix, prod): add_child_production, and
\* the call of the walk for the first child of the family
rd_VisitFamily ==
    /\ rd_pc = "family"
    /\ Top.ix < Len(rd_forest[Top.node].families)
    /\ rd_current_verb_stack' =
          IF Top.results.none THEN rd_current_verb_stack
          ELSE add_child_production(Top.results, rd_current_verb_stack)
    /\ rd_nav' = [ rd_nav EXCEPT ![Len(rd_nav)].child = 1 ]
    /\ rd_arg' = rd_forest[Top.node].families[Top.ix + 1][1]
    /\ rd_pc' = "call"
    /\ UNCHANGED <<rd_scen, rd_run, rd_prev, rd_order, rd_scores, rd_forest, rd_ret, rd_visited,
                   rd_prep_bonus_stack, rd_bonus_cache, rd_reduce_calls>>
    /\ UNCHANGED exceptReducer

\* _add_result(results, ix, sc) with the result of a child: add_child_score,
\* and the call of the walk for the second child, or the next family
rd_AddResult ==
    /\ rd_pc = "ret"
    /\ rd_nav # <<>>
    /\ LET family == rd_forest[Top.node].families[Top.ix + 1]
           r == add_child_score(Top.results, Top.ix, rd_ret, rd_current_verb_stack)
           results == IF Top.results.none THEN Top.results ELSE r.info
       IN /\ rd_current_verb_stack' =
                IF Top.results.none THEN rd_current_verb_stack ELSE r.verb
          /\ IF Top.child < Len(family)
             THEN /\ rd_nav' = [ rd_nav EXCEPT ![Len(rd_nav)] =
                                   [ @ EXCEPT !.results = results, !.child = @ + 1 ] ]
                  /\ rd_arg' = family[Top.child + 1]
                  /\ rd_pc' = "call"
             ELSE /\ rd_nav' = [ rd_nav EXCEPT ![Len(rd_nav)] =
                                   [ @ EXCEPT !.results = results, !.ix = @ + 1, !.child = 0 ] ]
                  /\ rd_arg' = rd_arg
                  /\ rd_pc' = "family"
    /\ UNCHANGED <<rd_scen, rd_run, rd_prev, rd_order, rd_scores, rd_forest, rd_ret, rd_visited,
                   rd_prep_bonus_stack, rd_bonus_cache, rd_reduce_calls>>
    /\ UNCHANGED exceptReducer

\* _process_results(results, node) after the last family: dict(sc=0) if
\* results is None, else results.process(node) with its finally block; the
\* walk keeps the result for the node and returns it
rd_ProcessResults ==
    /\ rd_pc = "family"
    /\ Top.ix = Len(rd_forest[Top.node].families)
    /\ LET p == process(Top.results, rd_forest[Top.node], rd_prep_bonus_stack)
           f == process_finally(Top.results, rd_prep_bonus_stack, rd_current_verb_stack)
           d == IF Top.results.none THEN ScoreDict(0) ELSE p.sc
       IN /\ rd_ret' = d
          /\ rd_visited' = (Top.node :> d) @@ rd_visited
          /\ IF Top.results.none
             THEN UNCHANGED <<rd_forest, rd_reduce_calls, rd_prep_bonus_stack, rd_current_verb_stack>>
             ELSE /\ rd_forest' = IF p.reduce_to = <<>> THEN rd_forest
                                  ELSE reduce_to(rd_forest, Top.node, p.reduce_to[1])
                  /\ rd_reduce_calls' =
                        rd_reduce_calls \o [ k \in DOMAIN p.reduce_to |-> << Top.node, p.reduce_to[k] >> ]
                  /\ rd_prep_bonus_stack' = f.prep
                  /\ rd_current_verb_stack' = f.verb
    /\ rd_nav' = SubSeq(rd_nav, 1, Len(rd_nav) - 1)
    /\ rd_pc' = "ret"
    /\ UNCHANGED <<rd_scen, rd_run, rd_prev, rd_order, rd_scores, rd_arg, rd_bonus_cache>>
    /\ UNCHANGED exceptReducer

\* results.process(node) raises inside its try block: the finally block
\* runs, and the exception leaves the walk and go; process() of the nodes
\* above is never called
rd_ProcessRaises ==
    /\ rd_pc = "family"
    /\ Top.ix = Len(rd_forest[Top.node].families)
    /\ ~Top.results.none
    /\ LET f == process_finally(Top.results, rd_prep_bonus_stack, rd_current_verb_stack)
       IN /\ rd_prep_bonus_stack' = f.prep
          /\ rd_current_verb_stack' = f.verb
    /\ rd_nav' = <<>>
    /\ rd_pc' = "raised"
    /\ UNCHANGED <<rd_scen, rd_run, rd_prev, rd_order, rd_scores, rd_forest, rd_arg, rd_ret,
                   rd_visited, rd_bonus_cache, rd_reduce_calls>>
    /\ UNCHANGED exceptReducer

\* The walk returns to go: _check_stacks, and go_with_score returns
\* (forest, score["sc"])
rd_Return ==
    /\ rd_pc = "ret"
    /\ rd_nav = <<>>
    /\ rd_pc' = IF check_stacks(rd_prep_bonus_stack, rd_current_verb_stack)
                THEN "done" ELSE "assertion"
    /\ UNCHANGED <<rd_scen, rd_run, rd_prev, rd_order, rd_scores, rd_forest, rd_arg, rd_ret,
                   rd_nav, rd_visited, rd_prep_bonus_stack, rd_current_verb_stack, rd_bonus_cache,
                   rd_reduce_calls>>
    /\ UNCHANGED exceptReducer

\* Another run of go_with_score on the same forest, tokens and tables (the
\* forest as it was before the run); what this run pruned and returned is
\* kept for comparison
rd_RunAgain ==
    /\ rd_pc = "done"
    /\ rd_run < MaxRuns
    /\ rd_prev.kind # "output"
    /\ rd_run' = rd_run + 1
    /\ rd_prev' = [ kind |-> "input", calls |-> rd_reduce_calls, score |-> rd_ret.sc,
                    tree |-> <<>>, single |-> FALSE ]
    /\ rd_forest' = Forests[rd_scen].forest
    /\ rd_order' = <<>>
    /\ rd_scores' = <<>>
    /\ rd_arg' = 0
    /\ rd_ret' = ScoreDict(0)
    /\ rd_visited' = <<>>
    /\ rd_prep_bonus_stack' = <<>>
    /\ rd_current_verb_stack' = <<>>
    /\ rd_bonus_cache' = {}
    /\ rd_reduce_calls' = <<>>
    /\ rd_pc' = "init"
    /\ UNCHANGED <<rd_scen, rd_nav>>
    /\ UNCHANGED exceptReducer

\* go_with_score is called on the forest the run before returned; the tree
\* and the score it returned are kept for comparison
rd_ReduceAgain ==
    /\ rd_pc = "done"
    /\ rd_run < MaxRuns
    /\ Forests[rd_scen].root # 0
    /\ rd_run' = rd_run + 1
    /\ rd_prev' = [ kind |-> "output", calls |-> rd_reduce_calls, score |-> rd_ret.sc,
                    tree |-> Tree(rd_forest, Forests[rd_scen].root),
                    single |-> SingleFamily(rd_forest, Forests[rd_scen].root) ]
    /\ rd_order' = <<>>
    /\ rd_scores' = <<>>
    /\ rd_arg' = 0
    /\ rd_ret' = ScoreDict(0)
    /\ rd_visited' = <<>>
    /\ rd_prep_bonus_stack' = <<>>
    /\ rd_current_verb_stack' = <<>>
    /\ rd_bonus_cache' = {}
    /\ rd_reduce_calls' = <<>>
    /\ rd_pc' = "init"
    /\ UNCHANGED <<rd_scen, rd_nav, rd_forest>>
    /\ UNCHANGED exceptReducer

ReducerNext ==
    \/ rd_GoWithScore
    \/ rd_Reduce
    \/ rd_VisitSeen
    \/ rd_VisitEpsilon
    \/ rd_VisitToken
    \/ rd_VisitNonterminal
    \/ rd_VisitFamily
    \/ rd_AddResult
    \/ rd_ProcessResults
    \/ rd_ProcessRaises
    \/ rd_Return
    \/ rd_RunAgain
    \/ rd_ReduceAgain

(***************************************************************************)
(* _Job and _Sentence (reynir.py): the sentences of a job and its          *)
(* statistics                                                              *)
(***************************************************************************)

\* Most sentences in the text of one job
MaxSentences == 3
\* Most explicit sentence.parse() calls made on the sentences of one job
MaxParseCalls == 4

\* What Fast_Parser.go and Fast_Parser.num_combinations do with the tokens of
\* a sentence: ParseError with or without a token index, no forest, or a
\* forest with a number of combinations; best is the score that
\* Reducer.go_with_score returns for a forest with several combinations
SentenceKinds ==
    { [ len |-> 2, go |-> "ParseError", token_index |-> <<>>, num |-> 0, best |-> 0 ],
      [ len |-> 3, go |-> "ParseError", token_index |-> <<0>>, num |-> 0, best |-> 0 ],
      [ len |-> 1, go |-> "None", token_index |-> <<>>, num |-> 0, best |-> 0 ],
      [ len |-> 2, go |-> "forest", token_index |-> <<>>, num |-> 1, best |-> 0 ],
      [ len |-> 3, go |-> "forest", token_index |-> <<>>, num |-> 2, best |-> 7 ] }

\* _Job.__init__
NewJob(parse) ==
    [ parse |-> parse, num_sent |-> 0, num_parsed |-> 0, num_tokens |-> 0,
      num_combinations |-> 0, total_tokens |-> 0 ]

\* _add_sentence counting the sentences that parsed only (a mutant)
add_sentence_if_parsed(job, slen, num) ==
    IF num > 0
    THEN [ job EXCEPT !.num_sent = @ + 1, !.num_tokens = @ + slen,
                      !.num_parsed = @ + 1, !.num_combinations = @ + num,
                      !.total_tokens = @ + slen ]
    ELSE job
\* _Job._add_sentence (the ambiguity and the time, both floats, are left out)
add_sentence(job, slen, num) ==
    IF num > 0
    THEN [ job EXCEPT !.num_sent = @ + 1, !.num_tokens = @ + slen,
                      !.num_parsed = @ + 1, !.num_combinations = @ + num,
                      !.total_tokens = @ + slen ]
    ELSE [ job EXCEPT !.num_sent = @ + 1, !.num_tokens = @ + slen ]

\* _Job.parse(tokens): whether ParseError leaves it, the values returned
\* otherwise, and the job after the finally block
Job_parse(job, s) ==
    IF s.go = "ParseError"
    THEN [ raised |-> TRUE, token_index |-> s.token_index, forest |-> None,
           num |-> 0, score |-> 0, job |-> add_sentence(job, s.len, 0) ]
    ELSE LET num == IF s.go = "None" THEN 0 ELSE s.num
         IN [ raised |-> FALSE, token_index |-> <<>>,
              forest |-> IF s.go = "None" THEN None
                         ELSE IF num > 1 THEN "best tree" ELSE "forest",
              num |-> num,
              score |-> IF num > 1 THEN s.best ELSE 0,
              job |-> add_sentence(job, s.len, num) ]

\* _Sentence.__init__ before the immediate parse: nothing is known yet
\* (the empty sequence stands for None in the fields that hold numbers)
NewSentence(s) ==
    [ s |-> s, len |-> s.len, err_index |-> <<>>, tree |-> None,
      simplified_tree |-> None, num |-> <<>>, score |-> <<>> ]

\* _Sentence.parse parsing again although _num is set (a mutant)
AlreadyParsedNever(sent) == FALSE
\* _Sentence.parse: if self._num is not None
AlreadyParsed(sent) == sent.num # <<>>

\* _Sentence.parse: the sentence and the job afterwards, the value returned,
\* and whether job.parse was invoked
Sentence_parse(sent, job) ==
    IF AlreadyParsed(sent)
    THEN [ sent |-> sent, job |-> job, ret |-> sent.num[1] > 0, invoked |-> FALSE ]
    ELSE LET r == Job_parse(job, sent.s)
             tree == IF r.raised THEN None ELSE r.forest
             num == IF r.raised THEN 0 ELSE r.num
             score == IF r.raised THEN 0 ELSE r.score
         IN [ sent |-> [ sent EXCEPT
                           !.err_index = IF ~r.raised THEN @
                                         ELSE IF r.token_index = <<>> THEN << sent.len - 1 >>
                                         ELSE r.token_index,
                           !.tree = tree,
                           !.simplified_tree = IF tree = None THEN None ELSE "simplified",
                           !.num = << num >>,
                           !.score = << score >> ],
              job |-> r.job, ret |-> num > 0, invoked |-> TRUE ]

RECURSIVE SeqsUpTo(_, _)
\* The non-empty sequences over S of length n at most
SeqsUpTo(S, n) ==
    IF n = 0 THEN {}
    ELSE { <<x>> : x \in S }
         \cup { Append(q, x) : q \in SeqsUpTo(S, n - 1), x \in S }

NoCall == [ sent |-> 0, ret |-> FALSE ]

\* Reynir.submit(text, parse): the tokenizer yields the tokens of the text
\* once; no sentence has been created
JobInit ==
    /\ \E parse \in BOOLEAN : jb_job = NewJob(parse)
    /\ jb_stream \in SeqsUpTo(SentenceKinds, MaxSentences)
    /\ jb_sents = <<>>
    /\ jb_parsings = <<>>
    /\ jb_calls = 0
    /\ jb_last = NoCall

JobIdle ==
    /\ jb_job = NewJob(FALSE)
    /\ jb_stream = <<>>
    /\ jb_sents = <<>>
    /\ jb_parsings = <<>>
    /\ jb_calls = 0
    /\ jb_last = NoCall

\* The next step of the iteration over job.sentences(): _create_sentence
\* builds a _Sentence, whose __init__ parses it when the job says so
jb_NextSentence ==
    /\ jb_stream # <<>>
    /\ LET new == NewSentence(Head(jb_stream))
           r == Sentence_parse(new, jb_job)
       IN IF jb_job.parse
          THEN /\ jb_sents' = Append(jb_sents, r.sent)
               /\ jb_job' = r.job
               /\ jb_parsings' = Append(jb_parsings, IF r.invoked THEN 1 ELSE 0)
               /\ jb_calls' = jb_calls + 1
               /\ jb_last' = [ sent |-> Len(jb_sents) + 1, ret |-> r.ret ]
          ELSE /\ jb_sents' = Append(jb_sents, new)
               /\ jb_parsings' = Append(jb_parsings, 0)
               /\ UNCHANGED <<jb_job, jb_calls, jb_last>>
    /\ jb_stream' = Tail(jb_stream)
    /\ UNCHANGED exceptJob

\* sentence.parse() called on the i-th sentence object
jb_SentenceParse(i) ==
    /\ jb_calls < MaxSentences + MaxParseCalls
    /\ LET r == Sentence_parse(jb_sents[i], jb_job)
       IN /\ jb_sents' = [ jb_sents EXCEPT ![i] = r.sent ]
          /\ jb_job' = r.job
          /\ jb_parsings' = [ jb_parsings EXCEPT ![i] = @ + (IF r.invoked THEN 1 ELSE 0) ]
          /\ jb_last' = [ sent |-> i, ret |-> r.ret ]
    /\ jb_calls' = jb_calls + 1
    /\ UNCHANGED jb_stream
    /\ UNCHANGED exceptJob

JobNext ==
    \/ jb_NextSentence
    \/ \E i \in 1 .. Len(jb_sents) : jb_SentenceParse(i)

InitSpecWordbase == WordbaseInit /\ BinDbIdle /\ DawgIdle /\ MatcherIdle /\ ReducerIdle /\ JobIdle /\ TablesInit /\ LookupInit
SpecWordbase ==
    /\ InitSpecWordbase
    /\ [][WordbaseNext]_vars

InitSpecBinDb == BinDbInit /\ WordbaseIdle /\ DawgIdle /\ MatcherIdle /\ ReducerIdle /\ JobIdle /\ TablesInit /\ LookupInit
SpecBinDb ==
    /\ InitSpecBinDb
    /\ [][BinDbNext]_vars

InitSpecDawg == DawgInit /\ WordbaseIdle /\ BinDbIdle /\ MatcherIdle /\ ReducerIdle /\ JobIdle /\ TablesInit /\ LookupInit
SpecDawg ==
    /\ InitSpecDawg
    /\ [][DawgNext]_vars

InitSpecMatcher == MatcherInit /\ WordbaseIdle /\ BinDbIdle /\ DawgIdle /\ ReducerIdle /\ JobIdle /\ TablesInit /\ LookupInit
SpecMatcher ==
    /\ InitSpecMatcher
    /\ [][MatcherNext]_vars

\* A run of the matcher or a run of the reducer: the configuration tables
\* are all that the two have in common
InitSpecTables ==
    /\ \/ MatcherInit /\ ReducerIdle
       \/ MatcherIdle /\ ReducerInit
    /\ WordbaseIdle /\ BinDbIdle /\ DawgIdle /\ JobIdle /\ TablesInit /\ LookupInit
SpecTables ==
    /\ InitSpecTables
    /\ [][MatcherNext \/ ReducerNext]_vars

\* Calls of lookup_word in any order
InitSpecLookup ==
    /\ LookupInit /\ TablesInit
    /\ WordbaseIdle /\ BinDbIdle /\ DawgIdle /\ MatcherIdle /\ ReducerIdle /\ JobIdle
SpecLookup ==
    /\ InitSpecLookup
    /\ [][LookupNext]_vars

\* Number tokens matched against number terminals
SpecNumber ==
    /\ InitSpecMatcher
    /\ [][NumberNext]_vars

InitSpecReducer == ReducerInit /\ WordbaseIdle /\ BinDbIdle /\ DawgIdle /\ MatcherIdle /\ JobIdle /\ TablesInit /\ LookupInit
SpecReducer ==
    /\ InitSpecReducer
    /\ [][ReducerNext]_vars

InitSpecJob ==
    JobInit /\ WordbaseIdle /\ BinDbIdle /\ DawgIdle /\ MatcherIdle /\ ReducerIdle /\ TablesInit /\ LookupInit
SpecJob ==
    /\ InitSpecJob
    /\ [][JobNext]_vars

(***************************************************************************)
(* C1: when a completed nonterminal node has two or more scored families,  *)
(* ReductionInfo.process keeps exactly the family with the highest         *)
(* accumulated child score, the lowest index among the families that tie   *)
(* for the maximum, and calls node.reduce_to once with that index.         *)
(***************************************************************************)
C1_ProcessStep ==
    /\ rd_pc = "family"
    /\ rd_nav # <<>>
    /\ Top.ix = Len(rd_forest[Top.node].families)
    /\ ~Top.results.none
    /\ rd_forest[Top.node].is_completed
    /\ Cardinality(DOMAIN Top.results.sc) >= 2
    /\ rd_pc' = "ret"

C1_KeepsBest ==
    [][ C1_ProcessStep =>
          \E ix \in DOMAIN Top.results.sc :
              /\ \A j \in DOMAIN Top.results.sc :
                    /\ Top.results.sc[j].sc <= Top.results.sc[ix].sc
                    /\ Top.results.sc[j].sc = Top.results.sc[ix].sc => ix <= j
              /\ rd_reduce_calls' = Append(rd_reduce_calls, << Top.node, ix >>)
              /\ rd_forest'[Top.node].families = << rd_forest[Top.node].families[ix + 1] >>
              /\ \A n \in DOMAIN rd_forest : n # Top.node => rd_forest'[n] = rd_forest[n] ]_vars

\* The node with six families has been processed: the families 2 and 5 tied
\* at 8, above the other four, and reduce_to was called once, with 2.
C1_Witness ==
    /\ rd_scen = 2
    /\ rd_pc = "ret"
    /\ rd_nav = <<>>
    /\ rd_reduce_calls = << << 8, 2 >> >>
    /\ Len(rd_forest[8].families) = 1
    /\ rd_ret.sc = 8

(***************************************************************************)
(* C2: ParseForestReducer.go begins and ends with both _prep_bonus_stack   *)
(* and _current_verb_stack equal to the single base frame [None]: every    *)
(* frame pushed by ReductionInfo.__init__ is popped by the matching        *)
(* process() on every exit path, an exception raised inside process        *)
(* included, and set_current_verb never overwrites the base frame.         *)
(***************************************************************************)
\* The frames the nodes under visit have pushed and not yet popped
rd_PushedVerb == Cardinality({ k \in DOMAIN rd_nav : ~rd_nav[k].results.none })
rd_PushedPrep == Cardinality({ k \in DOMAIN rd_nav : rd_nav[k].results.pushed_prep_bonus })

C2_Balanced ==
    /\ rd_pc \in {"call", "ret", "family"} =>
          /\ Len(rd_current_verb_stack) = 1 + rd_PushedVerb
          /\ Len(rd_prep_bonus_stack) = 1 + rd_PushedPrep
          /\ rd_current_verb_stack[1] = NoneFrame
          /\ rd_prep_bonus_stack[1] = NoneFrame
    /\ (rd_pc \in {"call", "ret"} /\ rd_nav = <<>>) =>
          check_stacks(rd_prep_bonus_stack, rd_current_verb_stack)
    /\ rd_pc # "assertion"

\* process() is leaving, by return or by exception: what is popped is what
\* the __init__ of the same object pushed
C2_ProcessPops ==
    (/\ rd_pc = "family"
     /\ rd_nav # <<>>
     /\ Top.ix = Len(rd_forest[Top.node].families)
     /\ ~Top.results.none
     /\ rd_pc' \in {"ret", "raised"}) =>
        /\ rd_current_verb_stack =
              Append(rd_current_verb_stack', rd_current_verb_stack[Len(rd_current_verb_stack)])
        /\ rd_prep_bonus_stack =
              IF Top.results.pushed_prep_bonus
              THEN Append(rd_prep_bonus_stack', rd_prep_bonus_stack[Len(rd_prep_bonus_stack)])
              ELSE rd_prep_bonus_stack'

\* set_current_verb is called (by add_child_production or add_child_score):
\* the frame written is above the base frame
C2_SetAboveBase ==
    (/\ rd_pc \in {"family", "ret"}
     /\ rd_nav # <<>>
     /\ ~Top.results.none
     /\ rd_pc' \in {"call", "family"}) =>
        /\ Len(rd_current_verb_stack) >= 2
        /\ rd_current_verb_stack'[1] = rd_current_verb_stack[1]

C3_SameResult ==
    (rd_pc = "done" /\ rd_prev.kind = "input") =>
        /\ rd_reduce_calls = rd_prev.calls
        /\ rd_ret.sc = rd_prev.score

(***************************************************************************)
(* C12: a forest node for which no child score was added to any family     *)
(* (zero families), and a nonterminal node that spans no tokens, both      *)
(* yield the score 0, with no family pruned and the reducer stacks left as *)
(* they were before the node was entered.                                  *)
(***************************************************************************)
C12_EmptyStep ==
    /\ rd_pc = "family"
    /\ rd_nav # <<>>
    /\ Top.ix = Len(rd_forest[Top.node].families)
    /\ \/ Top.results.none
       \/ DOMAIN Top.results.sc = {}
    /\ rd_pc' = "ret"

C12_EmptyScoresZero ==
    [][ C12_EmptyStep =>
          /\ rd_ret' = ScoreDict(0)
          /\ rd_visited'[Top.node] = ScoreDict(0)
          /\ rd_reduce_calls' = rd_reduce_calls
          /\ rd_forest' = rd_forest
          /\ rd_prep_bonus_stack' = Top.entry.prep
          /\ rd_current_verb_stack' = Top.entry.verb ]_vars

\* The root that spans a token and has no family has been entered and
\* processed
C12_Witness ==
    /\ rd_scen = 5
    /\ rd_pc = "ret"
    /\ 1 \in DOMAIN rd_visited
    /\ rd_forest[1].families = <<>>
    /\ rd_forest[1].start < rd_forest[1].end
    /\ rd_ret.sc = 0
    /\ rd_reduce_calls = <<>>
    /\ rd_current_verb_stack = << NoneFrame >>

(***************************************************************************)
(* C14: reducer idempotence: reducing a forest in which every node already *)
(* has a single family (for instance the output of a previous reduction)   *)
(* returns the same tree and the same score as before.                     *)
(***************************************************************************)
C14_Idempotent ==
    (rd_pc = "done" /\ rd_prev.kind = "output" /\ rd_prev.single) =>
        /\ Tree(rd_forest, Forests[rd_scen].root) = rd_prev.tree
        /\ rd_ret.sc = rd_prev.score

(***************************************************************************)
(* C4: under any interleaving of concurrent calls of Wordbase.dawg(),      *)
(* dawg_formers() and dawg_last(), each resource is loaded successfully at *)
(* most once, no caller ever receives a dictionary that is not fully       *)
(* loaded, and all callers of one resource receive the same instance.      *)
(***************************************************************************)
C4_LoadOnce ==
    \A r \in Resources :
        /\ wb_loads[r] <= 1
        /\ \A o \in wb_returned[r] : FullyLoaded(o)
        /\ Cardinality(wb_returned[r]) <= 1
        /\ Wordbase_dawg[r] # 0 => FullyLoaded(Wordbase_dawg[r])

\* Two threads are inside calls for the same resource at the same time, one
\* of them has been handed the dictionary the other is waiting for.
C4_Witness ==
    \E t1, t2 \in Threads :
        /\ t1 # t2
        /\ wb_pc[t1] = "return" /\ wb_pc[t2] = "lock"
        /\ wb_res[t1] = wb_res[t2]
        /\ wb_returned[wb_res[t1]] # {}
        /\ wb_loads[wb_res[t1]] = 1

(***************************************************************************)
(* C5: under concurrent callers entering the session of BIN_Db.get_db(),   *)
(* the singleton is constructed exactly once and every caller receives the *)
(* same instance (as long as cleanup() has not been called).               *)
(***************************************************************************)
C5_SingletonOnce ==
    db_cleanups = 0 =>
        /\ db_constructed <= 1
        /\ Cardinality(db_returned) <= 1

(***************************************************************************)
(* C6: slice_compound_word returns, among the decompositions collected for *)
(* the word, one whose last part is longest and, among those, one with the *)
(* fewest parts; it returns None when no decomposition was collected.      *)
(***************************************************************************)
LastLen(x) == Len(x[Len(x)])
C6_BestDecomposition ==
    (dg_op = "slice" /\ ~dg_result.err) =>
        LET parts == dg_result.parts
            ret == dg_result.ret
        IN IF parts = <<>> THEN ret = <<>>
           ELSE /\ \E i \in 1 .. Len(parts) : parts[i] = ret
                /\ \A i \in 1 .. Len(parts) :
                      /\ LastLen(parts[i]) <= LastLen(ret)
                      /\ LastLen(parts[i]) = LastLen(ret) => Len(ret) <= Len(parts[i])

\* Two decompositions with equally long last parts and different numbers of
\* parts were collected, and the one returned is not the first collected.
C6_Witness ==
    /\ dg_op = "slice" /\ ~dg_result.err
    /\ Len(dg_result.parts) >= 2
    /\ dg_result.ret # dg_result.parts[1]
    /\ LastLen(dg_result.parts[1]) = LastLen(dg_result.ret)
    /\ Len(dg_result.parts[1]) > Len(dg_result.ret)

(***************************************************************************)
(* C7: for a graph that contains A and B but neither A+"s"+B nor words     *)
(* that make the remainder "s"+B decomposable, slice_compound_word of      *)
(* A+"s"+B returns the two-part split in which the filler "s" joins A and  *)
(* B, and never a split with more parts.                                   *)
(***************************************************************************)
RECURSIVE Decomposable(_, _)
\* x can be split into words of S, each but the last optionally followed by
\* the filler "s"
Decomposable(S, x) ==
    /\ x # <<>>
    /\ \/ x \in S
       \/ \E k \in 1 .. Len(x) - 1 :
            /\ SubSeq(x, 1, k) \in S
            /\ \/ Decomposable(S, SubSeq(x, k + 1, Len(x)))
               \/ /\ x[k + 1] = Cs
                  /\ k + 1 < Len(x)
                  /\ Decomposable(S, SubSeq(x, k + 2, Len(x)))
FillerCase(A, B) ==
    /\ dg_op = "slice" /\ dg_file.disk = "ok"
    /\ A \in dg_words /\ B \in dg_words
    /\ dg_arg = A \o <<Cs>> \o B
    /\ dg_arg \notin dg_words
    /\ ~Decomposable(dg_words, <<Cs>> \o B)
\* The claim as stated
C7_Original ==
    \A A \in dg_words, B \in dg_words :
        FillerCase(A, B) => dg_result.ret = << A \o <<Cs>>, B >>
\* The claim as amended: provided no collected decomposition ends in a part
\* longer than B
C7_FillerSplit ==
    \A A \in dg_words, B \in dg_words :
        ( /\ FillerCase(A, B)
          /\ \A i \in 1 .. Len(dg_result.parts) : LastLen(dg_result.parts[i]) <= Len(B) )
        => /\ ~dg_result.err
           /\ dg_result.ret = << A \o <<Cs>>, B >>
\* "barnsrannsokn" over a graph with "barn", "rannsokn" and the one-letter
\* word "s" was sliced into "barns" + "rannsokn"
C7_Witness ==
    /\ FillerCase(W_barn, W_rannsokn)
    /\ dg_result.ret = << W_barn \o <<Cs>>, W_rannsokn >>
    /\ Len(dg_result.parts) >= 1

(***************************************************************************)
(* C8: for a well-formed packed graph, find(w) is True for every word the  *)
(* graph was built from and False for every other string (the empty one    *)
(* included): it is True iff some path from the root spells exactly w and  *)
(* ends at a finality mark.                                                *)
(***************************************************************************)
RECURSIVE Unbarred(_)
\* The characters of a decoded prefix, without the finality marks
Unbarred(prefix) ==
    IF prefix = <<>> THEN <<>>
    ELSE IF Head(prefix) = VBar THEN Unbarred(Tail(prefix))
    ELSE <<Head(prefix)>> \o Unbarred(Tail(prefix))
RECURSIVE MarkedAfter(_, _)
\* Whether the k-th character of a decoded prefix is followed by a mark
MarkedAfter(prefix, k) ==
    IF prefix = <<>> THEN FALSE
    ELSE IF k = 1 THEN Len(prefix) >= 2 /\ prefix[2] = VBar
    ELSE MarkedAfter(IF Len(prefix) >= 2 /\ prefix[2] = VBar
                     THEN Tail(Tail(prefix)) ELSE Tail(prefix), k - 1)
RECURSIVE PathSpells(_, _, _)
\* Some path of edges from the node at offset spells exactly w and ends at
\* a finality mark
PathSpells(d, offset, w) ==
    /\ w # <<>>
    /\ LET it == iter_from_node(d, offset)
       IN /\ it.ok
          /\ \E i \in 1 .. Len(it.edges) :
                LET chars == Unbarred(it.edges[i][1])
                    nextnode == it.edges[i][2]
                IN \/ /\ Len(w) <= Len(chars)
                      /\ SubSeq(chars, 1, Len(w)) = w
                      /\ \/ MarkedAfter(it.edges[i][1], Len(w))
                         \/ /\ Len(w) = Len(chars)
                            /\ (nextnode = 0 \/ Hi(At(d.b, nextnode)))
                   \/ /\ Len(w) > Len(chars)
                      /\ IsPrefix(chars, w)
                      /\ nextnode # 0
                      /\ PathSpells(d, nextnode, SubSeq(w, Len(chars) + 1, Len(w)))
C8_FindRoundTrip ==
    (dg_op = "find" /\ dg_file.disk = "ok") =>
        /\ ~dg_result.err
        /\ dg_result.found <=> dg_arg \in dg_words
        /\ dg_result.found <=> PathSpells(dawg, dawg.root_offset, dg_arg)

\* A word of three letters or more was found in a graph of several words,
\* and a proper prefix of a word was not
C8_Witness ==
    /\ dg_op = "find" /\ dg_file.disk = "ok"
    /\ dg_result.found
    /\ Len(dg_arg) >= 3
    /\ \E w \in dg_words : w # dg_arg /\ IsPrefix(w, dg_arg)
    /\ \E w \in dg_words : w # dg_arg /\ IsPrefix(dg_arg, w)

(***************************************************************************)
(* C9: for every terminal t and reading r, matching a word token whose     *)
(* only reading is r against t succeeds iff every bit set in t's feature   *)
(* mask (_fbits) is also set in the feature mask derived from r's          *)
(* inflection string.                                                      *)
(***************************************************************************)
MaskContained == mt_terminal.fbits \subseteq fbits(mt_token.t2[1].beyging)
\* The claim as stated
C9_Original ==
    (mt_pc = "matched" /\ Len(mt_token.t2) = 1) =>
        (mt_result.ret # "False" <=> MaskContained)
\* The terminals and readings for which the mask alone decides: the reading
\* is of the terminal's category and that category is the adverb, or the
\* adjective (the terminal without a subject-case variant, the reading with
\* inflection information), or one without a matcher of its own
MaskDecides(terminal, r) ==
    /\ KIND(r.ordfl) = terminal.first
    /\ \/ terminal.first = "ao"
       \/ /\ terminal.first = "lo"
          /\ ~has_any_vbits(terminal, VBIT_SCASES)
          /\ r.beyging # Dash
       \/ terminal.first \notin OwnMatchers
\* The claim as amended
C9_FbitsMatch ==
    ( /\ mt_pc = "matched"
      /\ Len(mt_token.t2) = 1
      /\ MaskDecides(mt_terminal, mt_token.t2[1]) )
    => ( /\ mt_result.ret \in {"False", "meaning"}
         /\ mt_result.ret = "meaning" <=> MaskContained )
\* An adjective terminal that demands case, number and gender was matched
\* against an adjective reading that has them
C9_Witness ==
    /\ mt_pc = "matched"
    /\ Len(mt_token.t2) = 1
    /\ MaskDecides(mt_terminal, mt_token.t2[1])
    /\ mt_terminal.first = "lo"
    /\ Cardinality(mt_terminal.fbits) >= 3
    /\ mt_result.ret = "meaning"

(***************************************************************************)
(* C10: for a word token with an empty reading list and a non-literal      *)
(* terminal, the result is a plain match (True, never a reading) in        *)
(* exactly two cases and no match otherwise: the token starts with an      *)
(* uppercase letter and the terminal is a bare 'sernafn' terminal; or the  *)
(* token is lowercase and the terminal is a singular neuter noun terminal  *)
(* without the definite-article variant. (Stated here for tokens whose     *)
(* text has no space in it.)                                               *)
(***************************************************************************)
C10_TwoFallbacks ==
    ( /\ mt_pc = "matched"
      /\ mt_token.t2 = <<>>
      /\ ~Contains(mt_token.t1, <<" ">>) )
    => mt_result.ret =
         IF \/ /\ mt_token.is_upper
               /\ mt_terminal.first = "sérnafn"
               /\ mt_terminal.vparts = <<>>
            \/ /\ ~mt_token.is_upper
               /\ mt_terminal.first = "no"
               /\ {"et", "hk"} \subseteq mt_terminal.vset
               /\ "gr" \notin mt_terminal.vset
         THEN "True" ELSE "False"

(***************************************************************************)
(* C11: for a non-subject verb terminal so_1_<case> and a reading that is  *)
(* not in the middle voice and whose lemma is listed in the one-argument   *)
(* verb table, the match holds only if one of the lemma's listed argument  *)
(* frames has exactly that case.                                           *)
(***************************************************************************)
\* The reading the match returned
MatchedReading == mt_token.t2[mt_result.index]
\* A verb terminal so_1_<case> without the variant subj
OneCaseVerbTerminal(terminal) ==
    /\ terminal.first = "so"
    /\ ~is_subj(terminal)
    /\ terminal.vcount >= 2
    /\ terminal.vparts[1] = "1"
    /\ terminal.vparts[2] \in { CASES[k] : k \in DOMAIN CASES }
FrameWithCase(verb, case) ==
    \E k \in DOMAIN VerbArgs(1, verb) : VerbArgs(1, verb)[k] = << case >>
\* The claim as stated
C11_Original ==
    ( /\ mt_pc = "matched"
      /\ mt_result.ret = "meaning"
      /\ OneCaseVerbTerminal(mt_terminal)
      /\ MatchedReading.ordfl = "so"
      /\ ~Contains(MatchedReading.beyging, <<"M", "M">>)
      /\ VerbListed(1, MatchedReading.stofn) )
    => FrameWithCase(MatchedReading.stofn, mt_terminal.vparts[2])
\* The claim as amended: the reading carries inflection information (it is
\* not the reading of an abbreviation), and the lemma looked up is the part
\* after the last hyphen
C11_ArgumentCase ==
    ( /\ mt_pc = "matched"
      /\ mt_result.ret = "meaning"
      /\ OneCaseVerbTerminal(mt_terminal)
      /\ MatchedReading.ordfl = "so"
      /\ MatchedReading.beyging # Dash
      /\ ~Contains(MatchedReading.beyging, <<"M", "M">>)
      /\ VerbListed(1, LastPart(MatchedReading.stofn)) )
    => FrameWithCase(LastPart(MatchedReading.stofn), mt_terminal.vparts[2])
\* 'hjálpar', of the verb listed with one dative argument, has matched a
\* terminal so_1_þgf
C11_Witness ==
    /\ mt_pc = "matched"
    /\ mt_result.ret = "meaning"
    /\ OneCaseVerbTerminal(mt_terminal)
    /\ mt_terminal.vparts[2] = "þgf"
    /\ MatchedReading = R.hjalpar_so
    /\ VerbArgs(1, MatchedReading.stofn) = << <<"þgf">> >>

(***************************************************************************)
(* C20: for a non-subject verb terminal, a verb reading whose inflection   *)
(* tag contains supine (SAGNB), past participle (LHÞT), imperative (BH) or *)
(* impersonal (OP) matches only if the terminal explicitly has the         *)
(* corresponding variant (sagnb, lhþt, bh, op).                            *)
(***************************************************************************)
C20_Restrictive ==
    ( /\ mt_pc = "matched"
      /\ mt_result.ret = "meaning"
      /\ mt_terminal.first = "so"
      /\ ~is_subj(mt_terminal)
      /\ MatchedReading.ordfl = "so" )
    => \A v \in {"sagnb", "lhþt", "bh", "op"} :
           Contains(MatchedReading.beyging, VariantTag(v)) => has_variant(mt_terminal, v)
\* The supine 'hjálpað' has matched a terminal that has the variant sagnb
C20_Witness ==
    /\ mt_pc = "matched"
    /\ mt_result.ret = "meaning"
    /\ mt_terminal.first = "so"
    /\ ~is_subj(mt_terminal)
    /\ MatchedReading = R.hjalpad_SAGNB
    /\ has_variant(mt_terminal, "sagnb")

(***************************************************************************)
(* The unsharing pass of _reduce                                           *)
(***************************************************************************)

\* A child that _process_results of PrepositionUnpacker duplicates
TaggedChild(F, k) ==
    k # 0 /\ ~F[k].is_token /\ F[k].is_completed
          /\ "enable_prep_bonus" \in F[k].nonterminal.tags
\* A node at which dup() of copy_node returns the node itself
StopNode(F, c) ==
    c # 0 /\ F[c].is_completed
          /\ \/ F[c].nonterminal.tags \cap PREP_SCOPE_SET # {}
             \/ F[c].nonterminal.is_noun_phrase
             \/ F[c].nonterminal.is_optional /\ is_empty(F[c])
\* The children of node n
Kids(F, n) ==
    UNION { { F[n].families[f][c] : c \in DOMAIN F[n].families[f] } : f \in DOMAIN F[n].families } \ {0}
RECURSIVE CopyRegion(_, _, _)
\* The nodes of the subtrees below the nodes in todo, down to the stop nodes
CopyRegion(F, todo, seen) ==
    IF todo = {} THEN seen
    ELSE LET n == CHOOSE x \in todo : TRUE
             kids == { k \in Kids(F, n) : ~StopNode(F, k) }
         IN CopyRegion(F, (todo \cup kids) \ (seen \cup {n}), seen \cup {n})
\* The places (parent, family, index) of the tree below root that hold a
\* child tagged enable_prep_bonus
Occurrences(F, root) ==
    { o \in Reach(F, {root}, {}) \X (1 .. 6) \X (1 .. 2) :
        /\ o[2] \in DOMAIN F[o[1]].families
        /\ o[3] \in DOMAIN F[o[1]].families[o[2]]
        /\ TaggedChild(F, F[o[1]].families[o[2]][o[3]]) }
ChildAt(F, o) == F[o[1]].families[o[2]][o[3]]
\* The forest G is the forest F after the unsharing pass from root
Unshared(F, G, root) ==
    LET N == Len(F)
    IN /\ Len(G) >= N
       /\ Tree(G, root) = Tree(F, root)
       \* every occurrence has a copy of its own, made of new nodes
       /\ \A o \in Occurrences(G, root) :
            /\ CopyRegion(G, {ChildAt(G, o)}, {}) \subseteq (N + 1) .. Len(G)
            /\ \A p \in Occurrences(G, root) :
                 p # o => CopyRegion(G, {ChildAt(G, o)}, {}) \cap CopyRegion(G, {ChildAt(G, p)}, {}) = {}
            \* the copy ends at the stop nodes, which are the nodes of F
            /\ \A r \in CopyRegion(G, {ChildAt(G, o)}, {}) :
                 \A s \in Kids(G, r) : StopNode(G, s) => s <= N /\ G[s] = F[s]
       \* a node of F is as it was, but for the places that now hold a copy
       /\ \A n \in 1 .. N :
            /\ [ G[n] EXCEPT !.families = F[n].families ] = F[n]
            /\ DOMAIN G[n].families = DOMAIN F[n].families
            /\ \A f \in DOMAIN F[n].families :
                 /\ DOMAIN G[n].families[f] = DOMAIN F[n].families[f]
                 /\ \A c \in DOMAIN F[n].families[f] :
                      \/ G[n].families[f][c] = F[n].families[f][c]
                      \/ /\ TaggedChild(F, F[n].families[f][c])
                         /\ G[n].families[f][c] > N

C15_UnshareStep == rd_pc = "scored" /\ rd_pc' = "call"
C15_PruneStep == rd_reduce_calls' # rd_reduce_calls /\ rd_pc # "done"
(***************************************************************************)
(* C15: after the unsharing pass every occurrence of a child tagged        *)
(* enable_prep_bonus refers to a fresh copy of its own; the copying stops  *)
(* at, and keeps sharing, the nodes tagged begin_prep_scope, purge_prep or *)
(* no_prep, the noun-phrase nodes and the empty optional nonterminals; the *)
(* original nodes are not modified, so that pruning one copy never changes *)
(* the families seen through another parent.                               *)
(***************************************************************************)
C15_Unsharing ==
    [][ /\ C15_UnshareStep => Unshared(rd_forest, rd_forest', Forests[rd_scen].root)
        /\ C15_PruneStep =>
             LET n == rd_reduce_calls'[Len(rd_reduce_calls')][1]
             IN /\ DOMAIN rd_forest' = DOMAIN rd_forest
                /\ \A m \in DOMAIN rd_forest : m # n => rd_forest'[m] = rd_forest[m] ]_vars
\* One copy of the node that two places shared has been pruned, the other
\* copy still has both families, and a noun phrase is below both
C15_Witness ==
    /\ rd_pc \notin {"init", "scored", "done"}
    /\ rd_run = 1
    /\ \E a, b \in DOMAIN rd_forest :
         /\ a > Len(Forests[rd_scen].forest) /\ b > Len(Forests[rd_scen].forest)
         /\ TaggedChild(rd_forest, a) /\ TaggedChild(rd_forest, b)
         /\ \E o, p \in Occurrences(rd_forest, Forests[rd_scen].root) :
              ChildAt(rd_forest, o) = a /\ ChildAt(rd_forest, p) = b
         /\ SingleFamily(rd_forest, a) /\ ~SingleFamily(rd_forest, b)
         /\ \E k \in Reach(rd_forest, {a}, {}) :
              /\ StopNode(rd_forest, k) /\ rd_forest[k].nonterminal.is_noun_phrase
              /\ k \in Reach(rd_forest, {b}, {})

(***************************************************************************)
(* C13: loading a packed graph whose first 12 bytes are not the expected   *)
(* signature fails at load, and every later find or slice_compound_word on *)
(* that dictionary object yields no match (False / None) and raises no     *)
(* error.                                                                  *)
(***************************************************************************)
C13_BadSignature ==
    dg_file.disk \in {"badsig", "badsig_tail"} =>
        /\ dg_op = "load" => dg_result.err
        /\ dg_op \in {"find", "slice"} =>
              ~dg_result.err /\ ~dg_result.found /\ dg_result.ret = <<>>


(* ---- C17: slice_compound_word is deterministic ---- *)

\* What a call of slice_compound_word hands back, without the cache
SliceOutcome(r) == [ err |-> r.err, parts |-> r.parts, ret |-> r.ret ]
\* Two different collected decompositions that tie for the first place
TiedBest(parts) ==
    \E i, j \in 1 .. Len(parts) :
        /\ parts[i] # parts[j]
        /\ SliceKey(parts[i]) = SliceKey(parts[j])
        /\ \A k \in 1 .. Len(parts) : ~KeyLess(SliceKey(parts[i]), SliceKey(parts[k]))

\* C17: a call of slice_compound_word, made with whatever the edge cache held
\* after the earlier navigations, gives the list and the decomposition (or the
\* error) that the same call gives with an empty cache, and that a repeated
\* call, made with the cache this call left behind, gives; also when several
\* decompositions tie on last-part length and number of parts.
C17_Deterministic ==
    dg_op = "slice" =>
        LET this == [ err |-> dg_result.err, parts |-> dg_result.parts,
                      ret |-> dg_result.ret ]
        IN /\ this = SliceOutcome(slice_compound_word(dawg, << >>, dg_arg))
           /\ this = SliceOutcome(slice_compound_word(dawg, dg_iter_cache, dg_arg))
           /\ slice_compound_word(dawg, dg_iter_cache, dg_arg).cache = dg_iter_cache
C17_Witness ==
    /\ dg_op = "slice"
    /\ dg_file.disk = "ok"
    /\ ~dg_result.err
    /\ TiedBest(dg_result.parts)
    /\ dg_result.ret = << <<97>>, <<97, 97>>, <<98>> >>
    /\ DOMAIN dg_iter_cache # DOMAIN slice_compound_word(dawg, << >>, dg_arg).cache


(* ---- C18: what CompoundNavigator collects ---- *)

RECURSIVE Decompositions(_, _)
\* Every way of writing x as words of S, each word but the last optionally
\* followed by the filler "s", with something left after each filler
Decompositions(S, x) ==
    (IF x \in S THEN { <<x>> } ELSE {})
    \cup UNION { { <<SubSeq(x, 1, k)>> \o tail :
                       tail \in Decompositions(S, SubSeq(x, k + 1, Len(x))) } :
                 k \in { k \in 1 .. Len(x) - 1 :
                           \/ SubSeq(x, 1, k) \in S
                           \/ k >= 2 /\ x[k] = Cs /\ SubSeq(x, 1, k - 1) \in S } }

\* C18: after slice_compound_word on a loaded graph, every full decomposition
\* of the word (graph words joined by the fillers "" and "s") is in the list
\* collected by the navigator, from which the best one is selected.
C18_AllDecompositions ==
    (dg_op = "slice" /\ dg_file.disk = "ok" /\ ~dg_result.err) =>
        \A p \in Decompositions(dg_words, dg_arg) :
            \E i \in 1 .. Len(dg_result.parts) : dg_result.parts[i] = p


(* ---- C19: decoding a node of the packed graph ---- *)

\* C19: for every node of a loaded graph, _iter_from_node yields as many
\* edges as the low 7 bits of the node byte say; the label of each edge has
\* as many characters as the low 7 bits of its length byte say, and they are
\* the vocabulary characters of the following bytes; the edge leads to the
\* 4-byte little-endian offset after the label, unless the last character
\* byte is marked final: then there is no offset (the next edge begins right
\* after the label) and the edge leads to no node (0).
C19_NodeDecoding ==
    (dg_op \in {"find", "slice"} /\ dg_file.disk = "ok") =>
        \A o \in NodeOffsets(dawg.b, {dawg.root_offset}, {}) :
            LET it == iter_from_node(dawg, o)
                n == At(dawg.b, o) % 128
            IN /\ it.ok
               /\ Len(it.edges) = n
               /\ \A k \in 1 .. n :
                    LET e == EdgeStart(dawg.b, o, k)
                        len == At(dawg.b, e) % 128
                        final == At(dawg.b, e + len) >= 128
                    IN /\ Unbarred(it.edges[k][1]) =
                            [ j \in 1 .. len |-> dawg.vocabulary[(At(dawg.b, e + j) % 128) + 1] ]
                       /\ final => it.edges[k][2] = 0
                       /\ ~final => /\ it.edges[k][2] = LittleEndian32(dawg.b, e + len + 1)
                                    /\ it.edges[k][2] # 0
                       /\ k < n => EdgeStart(dawg.b, o, k + 1) =
                                       e + 1 + len + (IF final THEN 0 ELSE 4)
\* A find on a loaded graph that went through a node whose byte has the high
\* bit and several edges, one of them final with the high bit in its length
\* byte as well, and through a node with an edge that leads on
C19_Witness ==
    /\ dg_op = "find" /\ dg_file.disk = "ok" /\ dg_result.found
    /\ \E o \in DOMAIN dg_iter_cache :
        /\ At(dawg.b, o) >= 128
        /\ NodeEdgeCount(dawg.b, o) >= 2
        /\ \E k \in 1 .. NodeEdgeCount(dawg.b, o) :
            /\ EdgeLastFinal(dawg.b, EdgeStart(dawg.b, o, k))
            /\ At(dawg.b, EdgeStart(dawg.b, o, k)) >= 128
    /\ \E o \in DOMAIN dg_iter_cache :
        \E k \in 1 .. NodeEdgeCount(dawg.b, o) :
            EdgeNextNode(dawg.b, EdgeStart(dawg.b, o, k)) \in DOMAIN dg_iter_cache


(* ---- C16: a sentence is parsed once, and the job counts it ---- *)

\* The sentence objects for which job.parse has run, and those among them
\* whose tokens give at least one parse combination
ParsedSentences == { i \in 1 .. Len(jb_sents) : jb_parsings[i] >= 1 }
ProductiveSentences == { i \in ParsedSentences : jb_sents[i].s.go = "forest" }

C26_Bounded ==
    (dg_op = "slice" /\ dg_file.disk = "ok") =>
        /\ dg_result.shorter
        /\ dg_result.depth <= Len(dg_arg)
        /\ dg_arg # <<>> => dg_result.depth < Len(dg_arg)
        /\ ~dg_result.err
\* A call that nested three navigators below the first one and found a
\* decomposition of four parts
C26_Witness ==
    /\ dg_op = "slice" /\ dg_file.disk = "ok"
    /\ dg_result.depth = 3
    /\ Len(dg_arg) = 4
    /\ dg_result.ret # <<>>
    /\ \E i \in 1 .. Len(dg_result.parts) : Len(dg_result.parts[i]) = 4

(* ---- C28: what a collected decomposition is made of ---- *)

RECURSIVE Concat(_)
\* The parts of a decomposition, joined
Concat(parts) == IF parts = <<>> THEN <<>> ELSE Head(parts) \o Concat(Tail(parts))
\* A graph word, or a graph word followed by the filler "s"
WordOrWordS(S, part) ==
    \/ part \in S
    \/ Len(part) >= 2 /\ part[Len(part)] = Cs /\ SubSeq(part, 1, Len(part) - 1) \in S

\* C28: every decomposition that slice_compound_word collects on a loaded
\* graph has at least one part, its parts joined give the input word, its last
\* part is a word of the graph, and every other part is a word of the graph or
\* such a word followed by the filler "s".
C28_PartsAreWords ==
    (dg_op = "slice" /\ dg_file.disk = "ok") =>
        \A i \in 1 .. Len(dg_result.parts) :
            LET x == dg_result.parts[i]
            IN /\ x # <<>>
               /\ Concat(x) = dg_arg
               /\ x[Len(x)] \in dg_words
               /\ \A k \in 1 .. Len(x) - 1 : WordOrWordS(dg_words, x[k])
\* Several decompositions were collected, one of them with a part that is a
\* graph word followed by the filler and is not a graph word itself
C28_Witness ==
    /\ dg_op = "slice" /\ dg_file.disk = "ok"
    /\ Len(dg_result.parts) >= 2
    /\ \E i \in 1 .. Len(dg_result.parts) :
        \E k \in 1 .. Len(dg_result.parts[i]) - 1 :
            dg_result.parts[i][k] \notin dg_words

(* ---- C29: the word is never indexed past its end ---- *)

\* C29: in every find and slice_compound_word call, whatever the file that
\* was loaded, push_edge and accepts are called only while the position of
\* the navigator is less than the length of its word: self._word is never
\* indexed at or past its end, also for the empty word.
C29_WithinWord ==
    dg_op \in {"find", "slice"} => ~dg_result.past_end
\* A find that consumed a whole word of three letters or more, to its last
\* letter, through more than one node
C29_Witness ==
    /\ dg_op = "find" /\ dg_file.disk = "ok"
    /\ dg_result.found
    /\ Len(dg_arg) >= 3
    /\ Cardinality(DOMAIN dg_iter_cache) >= 2


(***************************************************************************)
(* Noun readings without inflection data (matcher_no)                      *)
(***************************************************************************)

\* A noun terminal has matched a noun reading whose inflection string is "-"
NoInfoNounMatch ==
    /\ mt_pc = "matched"
    /\ mt_result.ret = "meaning"
    /\ mt_terminal.first = "no"
    /\ MatchedReading.ordfl \in GENDERS_SET
    /\ MatchedReading.beyging = Dash

\* The terminal names the gender of the reading and, of the gender and
\* number variants, nothing but that gender and the singular
BareSingularGender(terminal, m) ==
    /\ has_variant(terminal, m.ordfl)
    /\ fbits_match_mask(terminal, VBIT_GENDERS \cup VBIT_NUMBER,
                        VBIT(m.ordfl) \cup VBIT("et"))

\* C21 as stated: a noun reading that lacks inflection data matches a noun
\* terminal only if the terminal is an abbreviation terminal or a terminal
\* that specifies the gender of the reading and at most the singular number.
C21_Original ==
    NoInfoNounMatch =>
        \/ is_abbrev(mt_terminal)
        \/ BareSingularGender(mt_terminal, MatchedReading)

\* C21: a noun reading that lacks inflection data matches a noun terminal
\* only if the terminal is an abbreviation terminal, or the reading is not a
\* name and the terminal has no definite-article variant, names no gender
\* other than the gender of the reading, and its stem and form endings fit;
\* the case and number variants of the terminal are not looked at.
C21_NoInfoNoun ==
    NoInfoNounMatch =>
        \/ is_abbrev(mt_terminal)
        \/ /\ MatchedReading.fl # "nafn"
           /\ ~has_variant(mt_terminal, "gr")
           /\ \A g \in GENDERS_SET :
                 has_variant(mt_terminal, g) => g = MatchedReading.ordfl
           /\ \A i \in 1 .. Len(mt_terminal.vparts) :
                 LET v == mt_terminal.vparts[i]
                 IN /\ v \in { p[1] : p \in StemEnding } =>
                          EndsWith(MatchedReading.stofn, EndingOf(StemEnding, v))
                    /\ v \in { p[1] : p \in FormEnding } =>
                          EndsWith(mt_token.t1_lower, EndingOf(FormEnding, v))

\* A reading without inflection data has matched a plural noun terminal
C21_Witness ==
    /\ NoInfoNounMatch
    /\ ~is_abbrev(mt_terminal)
    /\ has_variant(mt_terminal, "ft")
    /\ has_variant(mt_terminal, MatchedReading.ordfl)


(***************************************************************************)
(* The verb/preposition bonus of a preposition leaf (_visit_token)         *)
(***************************************************************************)

\* The walk is about to call _visit_token on a leaf with a preposition terminal
PrepLeafCall ==
    /\ rd_pc = "call"
    /\ rd_arg # 0
    /\ rd_arg \notin DOMAIN rd_visited
    /\ rd_forest[rd_arg].is_token
    /\ matches_category(rd_forest[rd_arg].terminal, "fs")

\* get_prep_bonus(): the active preposition-bonus scope
ActiveScope == rd_prep_bonus_stack[Len(rd_prep_bonus_stack)]

\* The verb with its argument cases lists the preposition of the leaf, in
\* the case of the leaf's terminal (the bare preposition for a terminal
\* without a case), in the verb/preposition table
ListsPreposition(leaf, verb_terminal, verb_token) ==
    \E k \in DOMAIN verb_token.t2 :
       /\ verb_token.t2[k].ordfl = "so"
       /\ LET m == verb_token.t2[k]
              verb == IF Contains(m.beyging, <<"M", "M">>) /\ ~EndsWith(m.stofn, <<"s", "t">>)
                      THEN m.stofn \o <<"s", "t">> ELSE m.stofn
              prep == IF /\ leaf.terminal.vcount > 0
                         /\ leaf.terminal.vparts[1] \in {"nf", "þf", "þgf", "ef"}
                      THEN << leaf.token.t1_lower, leaf.terminal.vparts[1] >>
                      ELSE << leaf.token.t1_lower >>
          IN \E p \in VerbObjects.PREPOSITIONS :
                p[1] = << verb, verb_terminal.cases >> /\ prep \in p[2]

\* +7 for an enclosing verb that lists the preposition, -2 for one that does not
VerbBonus(leaf, entry) ==
    IF ListsPreposition(leaf, entry[1], entry[2]) THEN 7 ELSE -2

\* Every bonus in the cache is the bonus computed from its key
CachedIsFresh ==
    \A e \in rd_bonus_cache :
       e[2] = verb_prep_bonus(e[1][1], e[1][2], e[1][3], e[1][4])

\* C22: a preposition leaf visited while the active preposition-bonus scope
\* is a non-empty list of enclosing verbs scores its base score plus the
\* highest of the verbs' bonuses (+7 listed, -2 not listed); with the scope
\* None or an empty list it scores its base score; and a bonus taken from
\* the cache equals the bonus computed afresh.
C22_PrepBonus ==
    /\ [] CachedIsFresh
    /\ [][ (PrepLeafCall /\ rd_pc' = "ret") =>
             LET leaf == rd_forest[rd_arg]
                 base == rd_scores[leaf.start][leaf.terminal]
                 bonuses == { VerbBonus(leaf, ActiveScope.list[k]) :
                                k \in DOMAIN ActiveScope.list }
             IN /\ rd_ret'.sc =
                     IF ActiveScope.none \/ ActiveScope.list = <<>> THEN base
                     ELSE base + (CHOOSE b \in bonuses : \A c \in bonuses : c <= b)
                /\ \A e \in rd_bonus_cache : e \in rd_bonus_cache' ]_vars

\* A preposition leaf has been visited below two enclosing verbs, one that
\* lists the preposition and one that does not, with both bonuses in the
\* cache from the visit of another copy of the leaf; it scored 7 above its
\* base score
C22_Witness ==
    /\ rd_pc = "ret"
    /\ rd_arg # 0
    /\ rd_forest[rd_arg].is_token
    /\ matches_category(rd_forest[rd_arg].terminal, "fs")
    /\ ~ActiveScope.none
    /\ Len(ActiveScope.list) = 2
    /\ { VerbBonus(rd_forest[rd_arg], ActiveScope.list[k]) : k \in 1 .. 2 } = {7, -2}
    /\ rd_ret.sc = rd_scores[rd_forest[rd_arg].start][rd_forest[rd_arg].terminal] + 7
    /\ \E n \in DOMAIN rd_visited :
          /\ n # rd_arg
          /\ rd_forest[n].is_token
          /\ rd_forest[n].terminal = rd_forest[rd_arg].terminal
          /\ rd_forest[n].token = rd_forest[rd_arg].token
          /\ rd_visited[n].sc = rd_ret.sc
    /\ Cardinality(rd_bonus_cache) = 2


(***************************************************************************)
(* The current verb at the start of a family (add_child_production)        *)
(***************************************************************************)

\* The walk starts a family of a node that has a results object
FamilyStart ==
    /\ rd_pc = "family"
    /\ rd_pc' = "call"
    /\ ~Top.results.none

\* The verb that was current when the node on top of the walk was entered
VerbOnEntry == Top.entry.verb[Len(Top.entry.verb)]

\* The node opens a new scope: completed, not tagged enable_prep_bonus, and
\* tagged begin_prep_scope or a noun phrase
OpensScope(node) ==
    /\ node.is_completed
    /\ "enable_prep_bonus" \notin node.nonterminal.tags
    /\ ("begin_prep_scope" \in node.nonterminal.tags \/ node.nonterminal.is_noun_phrase)

\* C23 as stated: at the start of each family of a node the current-verb
\* frame is reset to the verb that was current when the node was entered.
C23_Original ==
    [][ FamilyStart =>
          rd_current_verb_stack'[Len(rd_current_verb_stack')] = VerbOnEntry ]_vars

\* C23: at the start of each family of a node the current-verb frame is
\* reset to the node's start verb: the verb that was current when the node
\* was entered, or None for a node that opens a new scope; the frames below
\* are left alone. A verb picked up from a child in one family is so never
\* the enclosing verb at the start of another family of the same node.
C23_FamilyReset ==
    [][ FamilyStart =>
          /\ Len(rd_current_verb_stack') = Len(rd_current_verb_stack)
          /\ \A k \in 1 .. Len(rd_current_verb_stack) - 1 :
                rd_current_verb_stack'[k] = rd_current_verb_stack[k]
          /\ rd_current_verb_stack'[Len(rd_current_verb_stack')] =
                IF OpensScope(rd_forest[Top.node]) THEN NoneFrame ELSE VerbOnEntry ]_vars

\* A second family has started on a node whose first family picked up a
\* verb from a child: the current verb is the start verb again
C23_Witness ==
    /\ rd_pc = "call"
    /\ rd_nav # <<>>
    /\ ~Top.results.none
    /\ Top.ix = 1
    /\ Top.child = 1
    /\ 0 \in DOMAIN Top.results.sc
    /\ "sl" \in Top.results.sc[0].keys
    /\ Top.results.sc[0].sl # <<>>
    /\ rd_current_verb_stack[Len(rd_current_verb_stack)] = Top.results.start_verb
    /\ rd_current_verb_stack[Len(rd_current_verb_stack)] # ListFrame(Top.results.sc[0].sl)


(***************************************************************************)
(* The $score of a verb with its argument cases (_calc_terminal_scores)    *)
(***************************************************************************)

\* The token at position i of the forest being reduced
TokenAt(i) ==
    rd_forest[CHOOSE n \in DOMAIN rd_forest :
                 rd_forest[n].is_token /\ rd_forest[n].start = i].token

\* The most positive of the scores configured for the verb readings of the
\* token with the terminal's argument cases
MostPositiveScore(t, token) ==
    LET all == UNION { verb_score(t, token, k) : k \in ScoredReadings(t, token) }
    IN CHOOSE x \in all : \A y \in all : y <= x

\* What is left of the score of the terminal t at position i when the
\* other heuristics of base scoring are taken away: the $score applied
AppliedVerbScore(i, t) ==
    LET root == Forests[rd_scen].root
        finals == find_options(rd_forest, root)
    IN rd_scores[i][t]
       - (terminal_score(t, DOMAIN rd_scores[i], TokenAt(i), i, rd_forest[root].start, finals)
          - verb_score_adj(t, TokenAt(i)))

\* C24: when several verb readings of a token have a configured $score for
\* the argument cases of a verb terminal, base scoring applies the most
\* positive of those scores to the terminal.
C24_MostPositive ==
    rd_pc = "scored" =>
        \A i \in DOMAIN rd_scores : \A t \in DOMAIN rd_scores[i] :
            ( /\ Cardinality(DOMAIN rd_scores[i]) > 1
              /\ t.first = "so"
              /\ t.vcount > 0 /\ t.vparts[1] \in {"0", "1", "2"}
              /\ Cardinality(ScoredReadings(t, TokenAt(i))) > 1 )
            => AppliedVerbScore(i, t) = MostPositiveScore(t, TokenAt(i))

(***************************************************************************)
(* C25: for a whole-number token n, n counts as singular iff |n| mod 100   *)
(* is not 11 and |n| mod 10 is 1; a singular terminal rejects a plural n   *)
(* unless n is 365, a plural terminal rejects a singular n, and a terminal *)
(* with neither number variant accepts every n. A 'tala' terminal gives    *)
(* the answer of is_correct_singular_or_plural as it is; a 'töl' or 'to'   *)
(* terminal matches only if that answer is yes.                            *)
(***************************************************************************)
WholeNumberMatched ==
    /\ mt_pc = "matched"
    /\ mt_token.t2[1] % NumberScale = 0

TokenNumber == mt_token.t2[1] \div NumberScale
AbsTokenNumber == IF TokenNumber < 0 THEN 0 - TokenNumber ELSE TokenNumber
NumberIsSingular == AbsTokenNumber % 100 # 11 /\ AbsTokenNumber % 10 = 1

NumberAccepted ==
    /\ "et" \in mt_terminal.vset /\ ~NumberIsSingular => TokenNumber = 365
    /\ "ft" \in mt_terminal.vset => ~NumberIsSingular

C25_SingularPlural ==
    WholeNumberMatched =>
        /\ mt_terminal.first = "tala" => (mt_result.ret = "True" <=> NumberAccepted)
        /\ mt_result.ret = "True" => NumberAccepted
        /\ mt_terminal.first = "tala" /\ mt_terminal.vset \cap {"et", "ft"} = {}
              => mt_result.ret = "True"

\* The plural number 365 has been accepted by a singular 'tala' terminal
C25_Witness ==
    /\ WholeNumberMatched
    /\ mt_terminal.first = "tala"
    /\ "et" \in mt_terminal.vset
    /\ TokenNumber = 365
    /\ mt_result.ret = "True"

(***************************************************************************)
(* C30: token-terminal matching and base scoring never add or change an    *)
(* entry of the configuration tables (verb argument and preposition        *)
(* tables, verb subject table, preposition-to-case table, adjective        *)
(* argument table, noun and word preference tables): after any sequence of *)
(* match and scoring calls every table has the keys and values it had      *)
(* before, although a subscript on a missing key of a defaultdict would    *)
(* insert the key.                                                         *)
(***************************************************************************)
C30_TablesUnchanged ==
    /\ DOMAIN cf_tables = DOMAIN ConfigTables
    /\ \A name \in DOMAIN ConfigTables : cf_tables[name] = ConfigTables[name]

\* A preposition terminal with a case has been matched with a word that is
\* not a key of Prepositions.PP, and the word is not a key afterwards
C30_Witness ==
    /\ mt_pc = "matched"
    /\ mt_token.t2 # <<>>
    /\ mt_terminal.first = "fs"
    /\ mt_terminal.vcount > 0
    /\ mt_terminal.vparts[1] # "nh"
    /\ ~Contains(mt_token.t1_lower, <<".">>)
    /\ mt_token.t1_lower \notin { p[1] : p \in ConfigTables.PP }
    /\ mt_token.t1_lower \notin { p[1] : p \in cf_tables.PP }

(***************************************************************************)
(* C27: BIN_Db._lookup never modifies a reading list returned by the       *)
(* lookup function: where it merges the upper- and lower-case results, or  *)
(* filters and prefixes the readings of the last part of a compound, it    *)
(* builds a new list, so every cached reading list is the same before and  *)
(* after any sequence of lookups (and is the list that meanings gave).     *)
(***************************************************************************)
CachedAsLookedUp == \A k \in DOMAIN lk_cache : lk_cache[k] = meanings(k)

C27_CacheIntact ==
    /\ [] CachedAsLookedUp
    /\ [][ \A k \in DOMAIN lk_cache :
              k \in DOMAIN lk_cache' /\ lk_cache'[k] = lk_cache[k] ]_vars

\* The last call returned a new list that joins two cached lists, both with
\* readings, and the two are cached as they were looked up
C27_Witness ==
    /\ lk_ret.cached = <<>>
    /\ \E a, b \in DOMAIN lk_cache :
          /\ a # b
          /\ lk_cache[a] # <<>> /\ lk_cache[b] # <<>>
          /\ lk_ret.m = lk_cache[a] \o lk_cache[b]
          /\ lk_cache[a] = meanings(a) /\ lk_cache[b] = meanings(b)

====
